---- MODULE Spec2Model ----
(***************************************************************************)
(* Universal Player (alejoas1981/player): a model of PlayerInstance and    *)
(* its collaborators (MediaFactory, VideoSource and the media element it   *)
(* drives, UIManager, AdManager, AnalyticsManager).                         *)
(*                                                                         *)
(* JavaScript runs to completion: one action of this model is one task of  *)
(* the event loop together with the microtasks (promise continuations) it  *)
(* triggers.  The media element queues its events and the settlement of    *)
(* its play() promises as tasks (`queue`), delivered first in first out.   *)
(***************************************************************************)
EXTENDS Integers, Sequences, FiniteSets, TLC

VARIABLES
    cfg,        \* the configuration the instance was created with
    pc,         \* position of PlayerInstance.init: new, awaitBuild, loading, ready, failed
    state,      \* PlayerInstance.state (PlaybackState)
    ms,         \* this.mediaSource
    el,         \* the media element behind mediaSource.videoElement
    queue,      \* tasks the media element has queued and not yet run
    pending,    \* the element's pending play() promises, oldest first
    ui,         \* this.uiManager
    container,  \* children of the container element
    ad,         \* the shared AdManager
    an,         \* the shared AnalyticsManager
    obs,        \* the play() call under observation
    hist,       \* history: what has happened so far
    lastOp,     \* the step just taken
    out,        \* player:* events emitted by the step just taken
    req,        \* MediaFactory: the request {url, type, config.priority}
    detected,   \* MediaFactory: result of detectMediaType(url, config)
    made,       \* MediaFactory: result of createMediaSource(request)
    inst,       \* UniversalPlayer.init(container, request): the media source of the instance
    am,         \* AnalyticsManager: the shared analyticsManager
    loops,      \* AnalyticsManager: the running invocations of processTrackingQueue
    aop,        \* AnalyticsManager: the step just taken
    ahist,      \* AnalyticsManager: history of the sessions
    now,        \* AnalyticsManager: Date.now()
    em,         \* EventManager: the listeners of one event name, and what was called
    ucfg,       \* ConfigManager: the userConfig given to createConfig
    mcfg,       \* ConfigManager: what createConfig returned
    vcfg,       \* ConfigManager: the configuration a player is initialised with
    vout,       \* ConfigManager: what validateConfig and UniversalPlayer.init did with it
    qs,         \* an HLSSource or DASHSource and the streaming backend it drives
    pg          \* a page with several instances and the AdManager they share

playerVars == <<cfg, pc, state, ms, el, queue, pending, ui, container, ad, an, obs,
                hist, lastOp, out>>
factoryVars == <<req, detected, made, inst>>
analyticsVars == <<am, loops, aop, ahist, now>>
configVars == <<ucfg, mcfg, vcfg, vout>>
moreVars == <<em, configVars, qs, pg>>
vars == <<cfg, pc, state, ms, el, queue, pending, ui, container, ad, an, obs,
          hist, lastOp, out, req, detected, made, inst, am, loops, aop, ahist,
          now, em, ucfg, mcfg, vcfg, vout, qs, pg>>

(***************************************************************************)
(* Bounds of the model.                                                    *)
(***************************************************************************)
MaxPieces == 3      \* a URL is built from at most this many pieces
MaxQueue == 2       \* host and UI make no call while this many tasks are queued
MaxPending == 1     \* play() promises pending at the element at a time
MaxTime == 1        \* media positions 0..MaxTime
MaxStatEvents == 4  \* plays and pauses tracked for the play time
MaxNow == 4         \* Date.now() runs from 1 to this
MaxSubs == 3        \* on and once are called at most this many times
MaxEmits == 2       \* the host emits the event at most this many times
MaxAdTime == 3      \* positions 0..MaxAdTime of an ad
MaxInterrupts == 1  \* ads started while another ad is playing
MaxCalls == 1       \* seek, volume, mute, rate, quality and loadVideo calls made by host and UI

(***************************************************************************)
(* Strings as sequences of characters, so that toLowerCase, includes and   *)
(* the regular expressions of detectMediaType are computed, not assumed.   *)
(***************************************************************************)
Absent == ""        \* undefined / null / '' : the falsy values of `type` and `priority`

Truthy(s) == s # Absent

UpperToLower ==
    [c \in {"H", "L", "S", "M", "P", "D", "A"} |->
        CASE c = "H" -> "h" [] c = "L" -> "l" [] c = "S" -> "s" [] c = "M" -> "m"
          [] c = "P" -> "p" [] c = "D" -> "d" [] c = "A" -> "a"]

toLowerCase(s) ==
    [i \in 1..Len(s) |-> IF s[i] \in DOMAIN UpperToLower THEN UpperToLower[s[i]] ELSE s[i]]

\* String.prototype.includes
includes(s, sub) ==
    \E i \in 1..(Len(s) - Len(sub) + 1) : SubSeq(s, i, i + Len(sub) - 1) = sub

\* s.match(/\.(e1|e2|...)(\?|$)/) for the extensions exts
matchExt(s, exts) ==
    \E i \in 1..Len(s) : \E e \in exts :
        /\ s[i] = "."
        /\ i + Len(e) <= Len(s)
        /\ SubSeq(s, i + 1, i + Len(e)) = e
        /\ (i + Len(e) = Len(s) \/ s[i + Len(e) + 1] = "?")

AudioExts == {<<"m", "p", "3">>, <<"w", "a", "v">>, <<"a", "a", "c">>, <<"o", "g", "g">>}
VideoExts == {<<"m", "p", "4">>, <<"w", "e", "b", "m">>, <<"f", "l", "v">>,
              <<"a", "v", "i">>, <<"m", "o", "v">>}

\* MediaFactory.sourceTypes
sourceTypes ==
    [t \in {"video", "audio", "hls", "mp4", "dash"} |->
        CASE t = "video" -> "VideoSource" [] t = "audio" -> "AudioSource"
          [] t = "hls" -> "HLSSource" [] t = "mp4" -> "Mp4Source"
          [] t = "dash" -> "DASHSource"]

\* MediaFactory.detectMediaType(url, config), config.priority passed as priority
detectMediaType(url, priority) ==
    IF Truthy(priority) THEN priority
    ELSE LET urlLower == toLowerCase(url) IN
         IF includes(urlLower, <<".", "m", "3", "u", "8">>)
               \/ includes(urlLower, <<"h", "l", "s">>)
         THEN "hls"
         ELSE IF includes(urlLower, <<".", "m", "p", "d">>)
                    \/ includes(urlLower, <<"d", "a", "s", "h">>)
         THEN "dash"
         ELSE IF matchExt(urlLower, AudioExts) THEN "audio"
         ELSE IF matchExt(urlLower, VideoExts) THEN "video"
         ELSE "video"

\* A mutation of createMediaSource: config.priority and the URL are consulted before
\* the explicit type.
createMediaSourcePriorityFirst(url, type, priority) ==
    LET d == detectMediaType(url, priority)
        detectedType == IF Truthy(d) THEN d ELSE type
    IN IF detectedType \in DOMAIN sourceTypes
       THEN [type |-> detectedType, source |-> sourceTypes[detectedType]]
       ELSE [type |-> detectedType, source |-> "Error"]

\* A mutation of createMediaSource: a type without a registered class falls back to
\* the video backend.
createMediaSourceFallsBack(url, type, priority) ==
    LET detectedType == IF Truthy(type) THEN type ELSE detectMediaType(url, priority)
    IN IF detectedType \in DOMAIN sourceTypes
       THEN [type |-> detectedType, source |-> sourceTypes[detectedType]]
       ELSE [type |-> detectedType, source |-> sourceTypes["video"]]

\* MediaFactory.createMediaSource({url, type, config}): the type looked up and the
\* class instantiated, "Error" for `throw new Error('Unsupported media type')`
createMediaSource(url, type, priority) ==
    LET detectedType == IF Truthy(type) THEN type ELSE detectMediaType(url, priority)
    IN IF detectedType \in DOMAIN sourceTypes
       THEN [type |-> detectedType, source |-> sourceTypes[detectedType]]
       ELSE [type |-> detectedType, source |-> "Error"]

(***************************************************************************)
(* URLs for the factory: concatenations of at most MaxPieces pieces.       *)
(***************************************************************************)
Pieces ==
    { <<"a">>,
      <<".", "m", "3", "u", "8">>,
      <<"h", "l", "s">>,
      <<".", "m", "p", "d">>,
      <<"d", "a", "s", "h">>,
      <<".", "m", "p", "3">>,
      <<".", "m", "p", "4">>,
      <<".", "M", "P", "3">>,
      <<".", "x", "y", "z">>,
      <<"?", "t">> }

RECURSIVE UrlsOf(_)
UrlsOf(n) ==
    IF n = 0 THEN {<< >>}
    ELSE LET shorter == UrlsOf(n - 1)
         IN shorter \cup {u \o p : u \in shorter, p \in Pieces}

Urls == UrlsOf(MaxPieces)

RequestTypes == {Absent, "mp4", "dash", "flash"}
Priorities == {Absent, "hls", "audio", "rtmp"}

NoResult == [type |-> "pending", source |-> "pending"]

(***************************************************************************)
(* Configurations of the player.  videoUrl, mediaType and priority go to   *)
(* createMediaSource; uiOk = FALSE is a configuration on which             *)
(* UIManager.build() throws (config.ui is not an object).                  *)
(***************************************************************************)
UrlClipMp4 == <<"a", ".", "m", "p", "4">>
NextUrl == <<"a", ".", "m", "p", "4", "?", "t">>

DefaultConfig ==
    [videoUrl |-> UrlClipMp4, mediaType |-> Absent, priority |-> "hls",
     autoplay |-> FALSE, startOffset |-> 0, volume |-> 10, nextVideo |-> Absent,
     preRoll |-> FALSE, postRoll |-> FALSE, pauseRoll |-> FALSE, adSkipAfter |-> 0,
     adSkippable |-> TRUE, trackingEnabled |-> FALSE, uiOk |-> TRUE,
     controlsAlwaysVisible |-> FALSE]

Configs ==
    { DefaultConfig,
      [DefaultConfig EXCEPT !.mediaType = "mp4", !.autoplay = TRUE, !.startOffset = 1,
                            !.volume = 0, !.nextVideo = NextUrl, !.preRoll = TRUE,
                            !.pauseRoll = TRUE, !.adSkipAfter = 2,
                            !.controlsAlwaysVisible = TRUE],
      [DefaultConfig EXCEPT !.mediaType = "flash"],
      [DefaultConfig EXCEPT !.uiOk = FALSE] }

Volumes == {0, 10}          \* volume in tenths: 0 and 1.0
Rates == {2}
Qualities == {"720p"}
Times == {0, 1}

\* ConfigManager.createConfig(userConfig): deepMerge(defaultConfig, userConfig); a key
\* the user configuration does not set (Absent) keeps the default, and mediaType has
\* no default
createConfig(user) ==
    [DefaultConfig EXCEPT !.videoUrl = user.url,
                          !.mediaType = user.type,
                          !.priority = IF Truthy(user.priority) THEN user.priority ELSE @]

\* PlayerInstance constructor: this.state
InitialState ==
    [currentTime |-> 0, duration |-> 0, volume |-> 10, muted |-> FALSE, playing |-> FALSE,
     buffering |-> FALSE, fullscreen |-> FALSE, pip |-> FALSE, quality |-> "auto",
     playbackRate |-> 1, seeking |-> FALSE]

\* mediaSource before createMediaSource has returned one
NoSource == [kind |-> "none", videoElement |-> FALSE, listeners |-> FALSE, isLoaded |-> FALSE]

\* the <video> element UIManager creates: paused, full volume, no source
NewElement ==
    [paused |-> TRUE, volume |-> 10, muted |-> FALSE, time |-> 0, rate |-> 1,
     src |-> "none", loaded |-> FALSE, error |-> "none", loadWait |-> FALSE]

NoObs == [phase |-> "none", emits |-> 0]

NoHist ==
    [lastEvt |-> "none", destroyed |-> FALSE, readyEmitted |-> FALSE,
     errorEmitted |-> FALSE, initFailed |-> FALSE, playCalled |-> FALSE,
     loadState |-> "idle", calls |-> 0, volCall |-> "none", adPlayed |-> FALSE,
     autoNext |-> FALSE, srcCreated |-> 0, srcDestroyed |-> 0, orphaned |-> 0]

Item(kind) == [kind |-> kind, calls |-> << >>]

(***************************************************************************)
(* The whole program state as one record, so that a method is an operator  *)
(* from state to state and a handler is the composition of its calls.      *)
(* `micro` holds the promise settlements whose continuations run as        *)
(* microtasks when the code of the current task has returned.              *)
(***************************************************************************)
World ==
    [cfg |-> cfg, pc |-> pc, state |-> state, ms |-> ms, el |-> el, queue |-> queue,
     pending |-> pending, ui |-> ui, container |-> container, ad |-> ad, an |-> an,
     obs |-> obs, hist |-> hist, lastOp |-> lastOp, out |-> out, micro |-> << >>]

\* the state a step starts from: src is who runs it (init, host, ui, media: the task
\* of a media event, settle: the task settling a promise, env), nothing is emitted
\* yet, and the observation of a play() call that has settled is over
Begin(src, op) ==
    [World EXCEPT !.lastOp = [src |-> src, op |-> op],
                  !.out = << >>,
                  !.obs = IF @.phase \in {"resolved", "rejected"} THEN NoObs ELSE @]

Emitted(o, ev) == Cardinality({i \in 1..Len(o) : o[i].ev = ev})

\* EventManager.emit of a player:* event on the shared eventManager; `by` is what
\* ran the emitting code: init, api, handler (a media event handler) or settle (the
\* continuation of a settled promise)
emit(w, ev, by) ==
    [w EXCEPT !.out = Append(@, [ev |-> ev, by |-> by]),
              !.hist.readyEmitted = @ \/ ev = "player:ready",
              !.hist.errorEmitted = @ \/ ev = "player:error"]

\* AnalyticsManager.track
track(w, eventType) ==
    IF w.an.config # "on" THEN w
    ELSE [w EXCEPT !.an.trackingQueue = Append(@, eventType)]

\* AnalyticsManager.init
analyticsInit(w) ==
    [w EXCEPT !.an.config = IF w.cfg.trackingEnabled THEN "on" ELSE "off"]

(***************************************************************************)
(* The media element, as VideoSource drives it.  play() on a paused        *)
(* element clears `paused` and queues a `play` event; pause() on a playing *)
(* element sets `paused`, queues a `pause` event and rejects the pending   *)
(* play() promises; the events reach PlayerInstance when their task runs.  *)
(***************************************************************************)
enqueue(w, item) == [w EXCEPT !.queue = Append(@, item)]

\* videoElement.play(): the promise of this call joins the pending ones
elementPlay(w, o) ==
    LET w1 == IF w.el.paused
              THEN enqueue([w EXCEPT !.el.paused = FALSE], Item("play"))
              ELSE w
    IN [w1 EXCEPT !.pending = Append(@, o)]

\* videoElement.pause()
elementPause(w) ==
    IF w.el.paused THEN w
    ELSE LET w1 == enqueue([w EXCEPT !.el.paused = TRUE], Item("pause"))
             w2 == IF w1.pending = << >> THEN w1
                   ELSE enqueue(w1, [Item("reject") EXCEPT !.calls = w1.pending])
         IN [w2 EXCEPT !.pending = << >>]

PromiseTask(t) == t.kind \in {"resolve", "reject"}

\* videoElement.src = url, videoElement.load(): the element's load algorithm.  The
\* tasks the element has queued are removed, the play() promises those tasks would
\* settle are settled at once, a playing element is paused without a `pause` event
\* and its pending promises are rejected; the element starts over with the resource
elementSetSrc(w, src) ==
    LET w1 == [w EXCEPT !.micro = @ \o SelectSeq(w.queue, PromiseTask), !.queue = << >>]
        w2 == IF w1.pending = << >> THEN w1
              ELSE [w1 EXCEPT !.micro = Append(@, [Item("reject") EXCEPT !.calls = w1.pending])]
    IN [w2 EXCEPT !.pending = << >>,
                  !.el.paused = TRUE, !.el.time = 0, !.el.src = src,
                  !.el.loaded = FALSE, !.el.error = "none"]

\* VideoSource.play: throws 'Video not loaded' without an element; the element
\* rejects at once when its source is not supported.  "throws" | "started"
sourcePlayOutcome(w) ==
    IF w.ms.kind = "none" \/ ~w.ms.videoElement \/ w.el.error = "src"
    THEN "throws" ELSE "started"

\* VideoSource.pause
sourcePause(w) == IF w.ms.videoElement THEN elementPause(w) ELSE w

\* VideoSource.seek: videoElement.currentTime = time; the element reports seeking,
\* then the new position and seeked
sourceSeek(w, time) ==
    IF ~w.ms.videoElement THEN w
    ELSE enqueue(enqueue([w EXCEPT !.el.time = time], Item("seeking")), Item("seeked"))

Clamp01(v) == IF v < 0 THEN 0 ELSE IF v > 10 THEN 10 ELSE v

\* VideoSource.setVolume: videoElement.volume = Math.max(0, Math.min(1, volume))
sourceSetVolume(w, volume) ==
    IF ~w.ms.videoElement THEN w
    ELSE LET v == Clamp01(volume)
         IN IF v = w.el.volume THEN w
            ELSE enqueue([w EXCEPT !.el.volume = v], Item("volumechange"))

\* VideoSource.setMuted
sourceSetMuted(w, muted) ==
    IF ~w.ms.videoElement THEN w
    ELSE IF muted = w.el.muted THEN w
    ELSE enqueue([w EXCEPT !.el.muted = muted], Item("volumechange"))

\* VideoSource.setPlaybackRate (ratechange is not among the forwarded events)
sourceSetPlaybackRate(w, rate) ==
    IF ~w.ms.videoElement THEN w ELSE [w EXCEPT !.el.rate = rate]

\* VideoSource.loadUrl
sourceLoadUrl(w, url) ==
    IF ~w.ms.videoElement THEN w ELSE elementSetSrc(w, "url")

\* VideoSource.destroy (mediaSource?.destroy()): pause, src = '', load(), clearAll()
sourceDestroy(w) ==
    IF w.ms.kind = "none" THEN w
    ELSE LET w1 == IF w.ms.videoElement
                   THEN elementSetSrc(elementPause(w), "empty")
                   ELSE w
         IN [w1 EXCEPT !.ms.listeners = FALSE, !.ms.videoElement = FALSE,
                       !.ms.isLoaded = FALSE, !.hist.srcDestroyed = @ + 1]

\* VideoSource.handleVideoEvent reaches a PlayerInstance handler: extractEventData
\* reads this.videoElement, and emit() calls the listeners still subscribed
forwards(w) == w.ms.videoElement /\ w.ms.listeners

(***************************************************************************)
(* UIManager and AdManager, as far as PlayerInstance uses them.            *)
(***************************************************************************)
\* UIManager.build -> createPlayerStructure: container.innerHTML = '', then the
\* player element with the <video> in it; the ad container appended before is gone
uiBuild(w) ==
    [w EXCEPT !.container = {"up-player"}, !.ui.built = TRUE, !.el = NewElement,
              !.ad.adContainer = IF @ = "attached" THEN "detached" ELSE @]

\* A mutation of UIManager.destroy: neither clearAll() nor the container is cleared.
uiDestroyKeepsListeners(w) == w

\* UIManager.destroy: clearAll(), container.innerHTML = ''
uiDestroy(w) ==
    [w EXCEPT !.ui.listeners = FALSE, !.ui.hideTimeout = FALSE, !.container = {},
              !.ad.adContainer = IF @ = "attached" THEN "detached" ELSE @]

\* UIManager.showControls
showControls(w) == [w EXCEPT !.ui.controlsVisible = TRUE]

\* UIManager.hideControls
hideControls(w) ==
    IF ~w.el.paused THEN [w EXCEPT !.ui.controlsVisible = FALSE] ELSE w

\* autoHide, the listener setupControlsAutoHide adds unless controlsAlwaysVisible:
\* the pending timeout is cleared and a new one is set (hideTimeout: a timeout is
\* pending)
autoHide(w) ==
    IF w.cfg.controlsAlwaysVisible THEN w ELSE [w EXCEPT !.ui.hideTimeout = TRUE]

\* the callback of the timeout set by autoHide
hideTimeoutFires(w) ==
    LET w1 == [w EXCEPT !.ui.hideTimeout = FALSE]
    IN IF ~w1.el.paused THEN hideControls(w1) ELSE w1

\* AdManager.init -> createAdContainer: appended to the container
adInit(w) ==
    [w EXCEPT !.ad.config = TRUE, !.ad.adContainer = "attached",
              !.container = @ \cup {"up-ad-container"}]

\* AdManager.cleanupAd
cleanupAd(w) ==
    [w EXCEPT !.ad.isPlayingAd = FALSE, !.ad.adElement = FALSE, !.ad.adTime = 0,
              !.ad.skipButton = "none"]

\* AdManager.destroy
adDestroy(w) ==
    LET w1 == cleanupAd(w)
    IN [w1 EXCEPT !.ad.adContainer = "null", !.ad.config = FALSE,
                  !.container = @ \ {"up-ad-container"}]

\* AdManager.createSkipButton: created with display: none, unless the ad is not
\* skippable
createSkipButton(w) ==
    IF ~w.cfg.adSkippable THEN w ELSE [w EXCEPT !.ad.skipButton = "hidden"]

\* currentAd.config.skipAfter || 5
skipAfterOf(w) == IF w.cfg.adSkipAfter = 0 THEN 5 ELSE w.cfg.adSkipAfter

\* AdManager.updateSkipButton: the button is displayed with the text 'Skip Ad' from
\* skipAfter on ("skip") and with the text 'Skip in Ns' before ("countdown")
updateSkipButton(w) ==
    IF w.ad.skipButton = "none" \/ ~w.ad.adElement \/ ~w.ad.currentAd THEN w
    ELSE IF w.ad.adTime >= skipAfterOf(w) THEN [w EXCEPT !.ad.skipButton = "skip"]
    ELSE [w EXCEPT !.ad.skipButton = "countdown"]

\* currentAd.resolve() and currentAd.reject(): a settled promise stays as it is
resolveAd(w) == [w EXCEPT !.ad.promise = IF @ = "pending" THEN "resolved" ELSE @]
rejectAd(w) == [w EXCEPT !.ad.promise = IF @ = "pending" THEN "rejected" ELSE @]

\* AdManager.playAd: the promise is the one returned to the caller; createAdElement
\* throws when adContainer is null, and the catch rejects
playAd(w, adType) ==
    LET w1 == [w EXCEPT !.ad.currentAd = TRUE, !.ad.adType = adType,
                        !.ad.promise = "pending", !.ad.isPlayingAd = TRUE]
    IN IF w1.ad.adContainer = "null" THEN rejectAd(w1)
       ELSE createSkipButton([w1 EXCEPT !.ad.adElement = TRUE, !.ad.adTime = 0])

\* playPreRoll, playPostRoll, playPauseRoll: without a config the call throws (the
\* promise of the async method is rejected), without an ad of the kind it resolves
\* at once
playRoll(w, configured, adType) ==
    IF ~w.ad.config THEN [w EXCEPT !.ad.promise = "rejected"]
    ELSE IF ~configured THEN [w EXCEPT !.ad.promise = "resolved"]
    ELSE playAd(w, adType)

\* AdManager.playPreRoll
adPlayPreRoll(w) == playRoll(w, w.cfg.preRoll, "preroll")

\* AdManager.playPostRoll
adPlayPostRoll(w) == playRoll(w, w.cfg.postRoll, "postroll")

\* AdManager.playPauseRoll
adPlayPauseRoll(w) == playRoll(w, w.cfg.pauseRoll, "pauseroll")

\* AdManager.onAdEnded
onAdEnded(w) ==
    IF ~w.ad.currentAd THEN w
    ELSE [resolveAd(cleanupAd(w)) EXCEPT !.ad.currentAd = FALSE, !.hist.adPlayed = TRUE]

\* AdManager.onAdError
onAdError(w) ==
    IF ~w.ad.currentAd THEN w
    ELSE [rejectAd(cleanupAd(w)) EXCEPT !.ad.currentAd = FALSE]

\* AdManager.skipAd
skipAd(w) == IF ~w.ad.currentAd THEN w ELSE onAdEnded(w)

(***************************************************************************)
(* PlayerInstance: the public API methods.  `by` says what is running the  *)
(* method (api: a host or ui:* call, settle: the continuation of init).    *)
(***************************************************************************)
\* PlayerInstance.play up to `await this.mediaSource.play()`; a throw or an immediate
\* rejection lands in the catch.  o: this is the call under observation
play(w, by, o) ==
    IF sourcePlayOutcome(w) = "throws"
    THEN LET w1 == emit(w, "player:error", by)
         IN IF o THEN [w1 EXCEPT !.obs.phase = "rejected"] ELSE w1
    ELSE elementPlay(w, o)

\* PlayerInstance.play after the await: this.state.playing = true; track('play')
playResolved(w, o) ==
    LET w1 == track([w EXCEPT !.state.playing = TRUE], "play")
    IN IF o THEN [w1 EXCEPT !.obs.phase = "resolved"] ELSE w1

\* PlayerInstance.play, the catch of a rejected mediaSource.play()
playRejected(w, o) ==
    LET w1 == emit(w, "player:error", "settle")
    IN IF o THEN [w1 EXCEPT !.obs.phase = "rejected"] ELSE w1

\* PlayerInstance.pause; this.mediaSource.pause() throws when there is no mediaSource
pause(w) ==
    IF w.ms.kind = "none" THEN w
    ELSE track([sourcePause(w) EXCEPT !.state.playing = FALSE], "pause")

\* A mutation of seek: it also writes the position into the state.
seekWritesState(w, time) ==
    IF w.ms.kind = "none" THEN w
    ELSE track([sourceSeek(w, time) EXCEPT !.state.currentTime = time], "seek")

\* PlayerInstance.seek
seek(w, time) ==
    IF w.ms.kind = "none" THEN w
    ELSE track(sourceSeek(w, time), "seek")

\* PlayerInstance.setVolume
setVolume(w, volume) ==
    IF w.ms.kind = "none" THEN w
    ELSE [sourceSetVolume(w, volume) EXCEPT !.state.volume = volume,
                                            !.state.muted = (volume = 0),
                                            !.hist.volCall = IF volume = 0 THEN "zero"
                                                             ELSE "positive"]

\* PlayerInstance.toggleMute
toggleMute(w) ==
    IF w.ms.kind = "none" THEN w
    ELSE LET newMuted == ~w.state.muted
         IN [sourceSetMuted(w, newMuted) EXCEPT !.state.muted = newMuted,
                                                !.hist.volCall = "mute"]

\* PlayerInstance.setPlaybackRate
setPlaybackRate(w, rate) ==
    IF w.ms.kind = "none" THEN w
    ELSE [sourceSetPlaybackRate(w, rate) EXCEPT !.state.playbackRate = rate]

\* PlayerInstance.setQuality (the sources only log or switch their own level)
setQuality(w, quality) ==
    IF w.ms.kind = "none" THEN w
    ELSE track([w EXCEPT !.state.quality = quality], "quality_change")

\* PlayerInstance.loadVideo
loadVideo(w, url) ==
    IF w.ms.kind = "none" THEN w ELSE sourceLoadUrl(w, url)

\* A mutation of destroy: the markup is left in the container.
destroyKeepsMarkup(w) ==
    LET w1 == sourceDestroy(w)
        w2 == [w1 EXCEPT !.ui.listeners = FALSE]
        w3 == adDestroy(w2)
    IN [w3 EXCEPT !.hist.destroyed = TRUE]

\* PlayerInstance.destroy
destroy(w) ==
    LET w1 == sourceDestroy(w)
        w2 == IF w1.ui.exists THEN uiDestroy(w1) ELSE w1
        w3 == adDestroy(w2)
    IN [w3 EXCEPT !.container = {}, !.hist.destroyed = TRUE]

(***************************************************************************)
(* PlayerInstance: the handlers of the media source's events.              *)
(***************************************************************************)
\* PlayerInstance.handlePlay
handlePlay(w) ==
    LET w1 == emit([w EXCEPT !.state.playing = TRUE], "player:play", "handler")
    IN [w1 EXCEPT !.hist.lastEvt = "play",
                  !.obs.emits = IF w.obs.phase = "pending" THEN @ + 1 ELSE @]

\* PlayerInstance.handlePause
handlePause(w) ==
    LET w1 == emit([w EXCEPT !.state.playing = FALSE], "player:pause", "handler")
    IN [w1 EXCEPT !.hist.lastEvt = "pause"]

\* PlayerInstance.handleEnded
handleEnded(w) ==
    LET w1 == track(emit([w EXCEPT !.state.playing = FALSE], "player:ended", "handler"),
                    "ended")
        w2 == [w1 EXCEPT !.hist.lastEvt = "ended"]
    IN IF Truthy(w2.cfg.nextVideo)
       THEN loadVideo([w2 EXCEPT !.hist.autoNext = TRUE], w2.cfg.nextVideo)
       ELSE w2

\* PlayerInstance.handleTimeUpdate, with the data extractEventData reads off the element
handleTimeUpdate(w) ==
    [w EXCEPT !.state.currentTime = w.el.time, !.state.duration = MaxTime]

\* PlayerInstance.handleVolumeChange, with the data extractEventData reads off the element
handleVolumeChange(w) ==
    [w EXCEPT !.state.volume = w.el.volume, !.state.muted = w.el.muted]

\* PlayerInstance.handleSeeking
handleSeeking(w) == [w EXCEPT !.state.seeking = TRUE]

\* PlayerInstance.handleSeeked
handleSeeked(w) == [w EXCEPT !.state.seeking = FALSE]

\* PlayerInstance.handleError
handleError(w) == emit(w, "player:error", "handler")

(***************************************************************************)
(* PlayerInstance.init.  The constructor runs init up to its first await   *)
(* (uiManager.build() has been called, its promise is awaited); the rest   *)
(* runs when the awaited promises settle.                                  *)
(***************************************************************************)
\* the catch of init
initFailed(w, by) ==
    [emit(w, "player:error", by) EXCEPT !.pc = "failed", !.hist.initFailed = TRUE]

\* PlayerInstance.setupEventListeners
setupEventListeners(w) == [w EXCEPT !.ms.listeners = TRUE, !.ui.listeners = TRUE]

\* init from `new UIManager` to `await this.uiManager.build()`
initStart(w) ==
    LET w1 == [w EXCEPT !.ui.exists = TRUE]
        created == createMediaSource(w.cfg.videoUrl, w.cfg.mediaType, w.cfg.priority)
    IN IF created.source = "Error" THEN initFailed(w1, "init")
       ELSE LET w2 == setupEventListeners([w1 EXCEPT !.ms.kind = created.source,
                                                     !.hist.srcCreated = @ + 1])
                w3 == adInit(analyticsInit(w2))
            IN [uiBuild(w3) EXCEPT !.pc = "awaitBuild"]

\* VideoSource.load up to the promise: the element is looked up in the container,
\* listened to and given its source
sourceLoad(w) ==
    [w EXCEPT !.ms.videoElement = TRUE, !.el.src = "url", !.el.loadWait = TRUE,
              !.hist.loadState = "pending", !.pc = "loading"]

\* init after `await this.uiManager.build()`: build() threw, or mediaSource.load() is
\* called; load() rejects at once when the container holds no .up-video element
initAfterBuild(w) ==
    IF ~w.cfg.uiOk THEN initFailed(w, "settle")
    ELSE IF "up-player" \notin w.container
         THEN initFailed([w EXCEPT !.hist.loadState = "rejected"], "settle")
    ELSE sourceLoad(w)

\* A mutation of applyInitialSettings: play() is called whatever config.autoplay is.
applyInitialSettingsAlwaysPlays(w) ==
    LET w1 == IF w.cfg.startOffset # 0 THEN seek(w, w.cfg.startOffset) ELSE w
        w2 == play(w1, "settle", FALSE)
    IN setVolume(w2, w2.cfg.volume)

\* PlayerInstance.applyInitialSettings
applyInitialSettings(w) ==
    LET w1 == IF w.cfg.startOffset # 0 THEN seek(w, w.cfg.startOffset) ELSE w
        w2 == IF w1.cfg.autoplay THEN play(w1, "settle", FALSE) ELSE w1
    IN setVolume(w2, w2.cfg.volume)

\* init after `await this.mediaSource.load()` resolved
loadResolved(w) ==
    IF ~w.el.loadWait THEN w
    ELSE LET w1 == [w EXCEPT !.el.loadWait = FALSE, !.ms.isLoaded = TRUE,
                             !.hist.loadState = "resolved"]
             w2 == applyInitialSettings(w1)
         IN [emit(w2, "player:ready", "settle") EXCEPT !.pc = "ready"]

\* init after `await this.mediaSource.load()` rejected
loadRejected(w) ==
    IF ~w.el.loadWait THEN w
    ELSE initFailed([w EXCEPT !.el.loadWait = FALSE, !.hist.loadState = "rejected"],
                    "settle")

(***************************************************************************)
(* Running the task at the head of the element's queue.                    *)
(***************************************************************************)
RECURSIVE resolveCalls(_, _)
resolveCalls(w, calls) ==
    IF calls = << >> THEN w
    ELSE resolveCalls(playResolved(w, Head(calls)), Tail(calls))

RECURSIVE rejectCalls(_, _)
rejectCalls(w, calls) ==
    IF calls = << >> THEN w
    ELSE rejectCalls(playRejected(w, Head(calls)), Tail(calls))

\* what the task does: an event goes through VideoSource.handleVideoEvent to the
\* handler subscribed in setupEventListeners; a settlement runs the continuations
run(w, item) ==
    CASE item.kind = "play" -> IF forwards(w) THEN handlePlay(w) ELSE w
      [] item.kind = "pause" -> IF forwards(w) THEN handlePause(w) ELSE w
      [] item.kind = "ended" -> IF forwards(w) THEN handleEnded(w) ELSE w
      [] item.kind = "timeupdate" -> IF forwards(w) THEN handleTimeUpdate(w) ELSE w
      [] item.kind = "volumechange" -> IF forwards(w) THEN handleVolumeChange(w) ELSE w
      [] item.kind = "seeking" -> IF forwards(w) THEN handleSeeking(w) ELSE w
      [] item.kind = "seeked" ->
            IF forwards(w) THEN handleSeeked(handleTimeUpdate(w)) ELSE w
      [] item.kind = "error" ->
            loadRejected(IF forwards(w) THEN handleError(w) ELSE w)
      [] item.kind = "loadeddata" -> loadResolved(w)
      [] item.kind = "resolve" -> resolveCalls(w, item.calls)
      [] item.kind = "reject" -> rejectCalls(w, item.calls)

\* the events VideoSource forwards to the handlers of PlayerInstance; the other
\* tasks settle a promise PlayerInstance awaits
EventKinds == {"play", "pause", "ended", "timeupdate", "volumechange", "seeking",
               "seeked", "error"}

\* the microtasks: the continuations of the play() promises settled by the task
RECURSIVE drain(_)
drain(w) ==
    IF w.micro = << >> THEN w
    ELSE LET t == Head(w.micro)
             w1 == [w EXCEPT !.micro = Tail(@)]
         IN drain(IF t.kind = "resolve" THEN resolveCalls(w1, t.calls)
                  ELSE rejectCalls(w1, t.calls))

\* the task ends: its microtasks run, and the result is the next state
Commit(w0) ==
    LET w == drain(w0)
    IN /\ cfg' = w.cfg /\ pc' = w.pc /\ state' = w.state /\ ms' = w.ms /\ el' = w.el
       /\ queue' = w.queue /\ pending' = w.pending /\ ui' = w.ui
       /\ container' = w.container /\ ad' = w.ad /\ an' = w.an /\ obs' = w.obs
       /\ hist' = w.hist /\ lastOp' = w.lastOp /\ out' = w.out
       /\ UNCHANGED <<factoryVars, analyticsVars, moreVars>>

(***************************************************************************)
(* AnalyticsManager.  One object is shared by all the instances of a page; *)
(* its state is the record `am`, and a method is an operator on the record *)
(* [am, loops, aop, ahist].  Progress and thresholds are in percent.       *)
(***************************************************************************)
Players == {"p1", "p2"}

BatchSize == 10     \* trackingQueue.splice(0, 10)
MaxTrackSteps == 2  \* tasks in which the host makes tracked API calls
MaxFlushes == 3     \* flush cycles that take a batch from the queue
MaxLoops == 2       \* invocations of processTrackingQueue alive at a time

\* config.eventTracking of a player: the first is a configured tracker, the last the
\* default (disabled, no trackingUrl)
AnConfigs ==
    { [enabled |-> TRUE, viewedThreshold |-> 80, trackingUrl |-> "url"],
      [enabled |-> TRUE, viewedThreshold |-> 50, trackingUrl |-> Absent],
      [enabled |-> FALSE, viewedThreshold |-> 80, trackingUrl |-> Absent] }

\* this.config = null of the constructor; nothing is enabled on it
NullConfig == [enabled |-> FALSE, viewedThreshold |-> 0, trackingUrl |-> Absent]

\* the positions and durations a timeupdate reports
ProgressTimes == {4, 6, 9}
Durations == {0, 10}

\* the players whose API calls (play, pause, seek, ...) are tracked, and the number
\* of such calls the host makes in one task: one, or one more than a batch holds
Trackers == {"p1"}
Bursts == {1, BatchSize + 1}

\* AnalyticsManager constructor
NewAnalytics ==
    [config |-> NullConfig, viewedThresholds |-> {}, sessionData |-> << >>,
     trackingQueue |-> << >>, isTracking |-> FALSE]

\* AnalyticsManager.init: the session of a player
\* lastPlayTime 0: not set yet
NewSession == [maxProgress |-> 0, totalPlayTime |-> 0, lastPlayTime |-> 0]

Sleeping == [at |-> "sleep", batch |-> << >>]

NoAHist ==
    [own |-> [p \in Players |-> NullConfig], reached |-> [p \in Players |-> FALSE],
     vtr |-> [p \in Players |-> 0], tracked |-> 0, steps |-> 0, flushes |-> 0,
     firstPlay |-> [p \in Players |-> 0], lastPlay |-> [p \in Players |-> 0],
     atLeast |-> [p \in Players |-> 0], atMost |-> [p \in Players |-> 0]]

AnalyticsIdle ==
    /\ am = NewAnalytics
    /\ loops = << >>
    /\ aop = [op |-> "none", batch |-> << >>]
    /\ ahist = NoAHist
    /\ now = 1

AWorld == [am |-> am, loops |-> loops, aop |-> aop, ahist |-> ahist, now |-> now]

\* the state a step of the analytics starts from
ABegin(op) == [AWorld EXCEPT !.aop = [op |-> op, batch |-> << >>]]

\* this.config?.enabled
Enabled(a) == a.am.config.enabled

Min(x, y) == IF x < y THEN x ELSE y
Max(x, y) == IF x > y THEN x ELSE y

RemoveAt(seq, i) == SubSeq(seq, 1, i - 1) \o SubSeq(seq, i + 1, Len(seq))

\* AnalyticsManager.updateSessionStats, for play and pause
updateSessionStats(a, eventType, playerId) ==
    LET session == a.am.sessionData[playerId]
    IN CASE eventType = "play" -> [a EXCEPT !.am.sessionData[playerId].lastPlayTime = a.now]
         [] eventType = "pause" /\ session.lastPlayTime # 0 ->
                [a EXCEPT !.am.sessionData[playerId].totalPlayTime =
                              @ + (a.now - session.lastPlayTime)]
         [] OTHER -> a

\* AnalyticsManager.track(eventType, {playerId}): n numbers the events in the order
\* they are tracked
analyticsTrack(a0, eventType, playerId) ==
    IF ~Enabled(a0) THEN a0
    ELSE LET n == a0.ahist.tracked + 1
             a == IF playerId \in DOMAIN a0.am.sessionData
                  THEN updateSessionStats(a0, eventType, playerId)
                  ELSE a0
         IN [a EXCEPT !.am.trackingQueue =
                          Append(@, [eventType |-> eventType, playerId |-> playerId, n |-> n]),
                      !.ahist.tracked = n,
                      !.ahist.vtr[playerId] =
                          IF eventType = "viewed_threshold_reached" THEN @ + 1 ELSE @]

RECURSIVE trackTimes(_, _, _)
trackTimes(a, calls, playerId) ==
    IF calls = 0 THEN a
    ELSE trackTimes(analyticsTrack(a, "play", playerId), calls - 1, playerId)

\* AnalyticsManager.trackProgress(playerId, currentTime, duration)
trackProgress(a, playerId, currentTime, duration) ==
    IF ~Enabled(a) \/ duration = 0 THEN a
    ELSE IF playerId \notin DOMAIN a.am.sessionData THEN a
    ELSE LET progress == (currentTime * 100) \div duration
             a1 == [a EXCEPT !.am.sessionData[playerId].maxProgress = Max(@, progress)]
         IN IF progress >= a1.am.config.viewedThreshold
                  /\ playerId \notin a1.am.viewedThresholds
            THEN analyticsTrack([a1 EXCEPT !.am.viewedThresholds = @ \cup {playerId}],
                                "viewed_threshold_reached", playerId)
            ELSE a1

\* AnalyticsManager.sendEvents(events) up to its await: without a trackingUrl it
\* returns and the loop goes to sleep; otherwise the POST is in flight
sendEvents(a, i, events) ==
    IF ~Truthy(a.am.config.trackingUrl) THEN [a EXCEPT !.loops[i] = Sleeping]
    ELSE [a EXCEPT !.loops[i] = [at |-> "send", batch |-> events]]

\* AnalyticsManager.processTrackingQueue: one turn of the while loop of invocation i,
\* from the test of isTracking to the next await
processTrackingQueue(a, i) ==
    IF ~a.am.isTracking THEN [a EXCEPT !.loops = RemoveAt(@, i)]
    ELSE IF a.am.trackingQueue = << >> THEN [a EXCEPT !.loops[i] = Sleeping]
    ELSE LET queue0 == a.am.trackingQueue
             k == Min(BatchSize, Len(queue0))
             events == SubSeq(queue0, 1, k)
             a1 == [a EXCEPT !.am.trackingQueue = SubSeq(queue0, k + 1, Len(queue0)),
                             !.aop.batch = events,
                             !.ahist.flushes = @ + 1]
         IN sendEvents(a1, i, events)

\* AnalyticsManager.startTrackingProcessor
startTrackingProcessor(a) ==
    IF a.am.isTracking THEN a
    ELSE LET a1 == [a EXCEPT !.am.isTracking = TRUE, !.loops = Append(@, Sleeping)]
         IN processTrackingQueue(a1, Len(a1.loops))

\* AnalyticsManager.init(playerId, config)
analyticsManagerInit(a, playerId, config) ==
    LET a1 == [a EXCEPT !.am.config = config, !.ahist.own[playerId] = config]
        sessions == a1.am.sessionData
    IN IF ~config.enabled THEN a1
       ELSE startTrackingProcessor(
                [a1 EXCEPT !.am.sessionData =
                     [q \in DOMAIN sessions \cup {playerId} |->
                         IF q = playerId THEN NewSession ELSE sessions[q]]])

\* sendEvents after the await: fetch resolved with response.ok
sendOk(a, i) ==
    [a EXCEPT !.aop.batch = a.loops[i].batch, !.loops[i] = Sleeping]

\* sendEvents after the await: fetch resolved with a response that is not ok
sendNotOk(a, i) ==
    [a EXCEPT !.aop.batch = a.loops[i].batch, !.loops[i] = Sleeping]

\* sendEvents after the await: fetch rejected, the catch re-queues the events
sendThrows(a, i) ==
    [a EXCEPT !.aop.batch = a.loops[i].batch,
              !.am.trackingQueue = a.loops[i].batch \o @,
              !.loops[i] = Sleeping]

\* AnalyticsManager.stopTracking
stopTracking(a) == [a EXCEPT !.am.isTracking = FALSE]

\* AnalyticsManager.cleanup(playerId); the session of the player is over
cleanup(a, playerId) ==
    LET sessions == a.am.sessionData
    IN [a EXCEPT !.am.sessionData = [q \in DOMAIN sessions \ {playerId} |-> sessions[q]],
                 !.am.viewedThresholds = @ \ {playerId},
                 !.ahist.reached[playerId] = FALSE,
                 !.ahist.vtr[playerId] = 0]

(***************************************************************************)
(* EventManager, for one event name.  A subscription is numbered by the    *)
(* order of the on/once calls; a listener is plain, or on its first call   *)
(* subscribes another listener with once, or on its first call emits the   *)
(* event again, or when called unsubscribes itself with off.  emit is      *)
(* synchronous: the whole dispatch, nested emits included, is one step.    *)
(***************************************************************************)
Behaviours == {"plain", "subscribes", "emits", "unsubscribes"}

\* new EventManager(): events and onceEvents are empty
NewEvents ==
    [events |-> << >>, onceEvents |-> << >>, subs |-> << >>, calls |-> << >>,
     log |-> << >>, fired |-> {}, emits |-> 0, inEmit |-> FALSE, before |-> << >>]

EventIdle == em = NewEvents

\* the subscription record kept for the history: kind, and when it was made
Subscribe(e, kind, does) ==
    [e EXCEPT !.subs = Append(@, [once |-> kind = "once", does |-> does,
                                  at |-> e.emits, during |-> e.inEmit]),
              !.calls = Append(@, 0)]

\* EventManager.on
on(e, does) ==
    [Subscribe(e, "on", does) EXCEPT !.events = Append(@, Len(e.subs) + 1)]

\* EventManager.once
once(e, does) ==
    [Subscribe(e, "once", does) EXCEPT !.onceEvents = Append(@, Len(e.subs) + 1)]

\* listeners.findIndex(listener => listener.callback === callback), 0 for -1
findIndex(listeners, n) ==
    IF \E i \in 1..Len(listeners) : listeners[i] = n
    THEN CHOOSE i \in 1..Len(listeners) :
             listeners[i] = n /\ \A j \in 1..(i - 1) : listeners[j] # n
    ELSE 0

\* EventManager.off: only the events Map is searched
off(e, n) ==
    LET index == findIndex(e.events, n)
    IN IF index = 0 THEN e
       ELSE [e EXCEPT !.events = SubSeq(@, 1, index - 1) \o SubSeq(@, index + 1, Len(@))]

RECURSIVE eventEmit(_), forEach(_, _, _), forEachOn(_, _, _), invoke(_, _)

\* callback.call(context, data): the listener runs, and what it does to the
\* EventManager happens before the next listener is called
invoke(e, n) ==
    LET e1 == [e EXCEPT !.log = Append(@, n), !.calls[n] = @ + 1]
        e2 == [e1 EXCEPT !.fired = @ \cup {n}]
    IN IF e.subs[n].does = "unsubscribes" THEN off(e1, n)
       ELSE IF e.subs[n].does = "plain" \/ n \in e.fired THEN e1
       ELSE IF e.subs[n].does = "subscribes" THEN once(e2, "plain")
       ELSE eventEmit(e2)

\* listeners.forEach on an array that only grows meanwhile (onceEvents): the
\* elements the array had when forEach was called
forEach(e, listeners, i) ==
    IF i > Len(listeners) THEN e
    ELSE forEach(invoke(e, listeners[i]), listeners, i + 1)

\* listeners.forEach on the array of events, which off() splices: the indices the
\* array had when forEach was called are visited in order, each index reads the
\* element that is there when its turn comes, and an index that is no longer in the
\* array is passed over
forEachOn(e, i, length) ==
    IF i > length THEN e
    ELSE IF i > Len(e.events) THEN forEachOn(e, i + 1, length)
    ELSE forEachOn(invoke(e, e.events[i]), i + 1, length)

\* EventManager.emit: the listeners of events, then the listeners of onceEvents,
\* then onceEvents.delete(eventName)
eventEmit(e) ==
    LET e1 == IF e.events # << >> THEN forEachOn(e, 1, Len(e.events)) ELSE e
    IN IF e1.onceEvents # << >>
       THEN [forEach(e1, e1.onceEvents, 1) EXCEPT !.onceEvents = << >>]
       ELSE e1

\* a call of emit by the host: the dispatch from its start to its return
hostEmit(e) ==
    [eventEmit([e EXCEPT !.log = << >>, !.inEmit = TRUE,
                         !.before = e.events \o e.onceEvents])
        EXCEPT !.inEmit = FALSE, !.emits = @ + 1]

ECommit(e) ==
    /\ em' = e
    /\ UNCHANGED <<playerVars, factoryVars, analyticsVars, configVars, qs, pg>>

\* the subscriptions still to come from listeners that subscribe when called
Unfired(e) == {n \in 1..Len(e.subs) : e.subs[n].does = "subscribes" /\ n \notin e.fired}

EvOn ==
    /\ Len(em.subs) + Cardinality(Unfired(em)) < MaxSubs
    /\ \E does \in Behaviours : ECommit(on(em, does))

EvOnce ==
    /\ Len(em.subs) + Cardinality(Unfired(em)) < MaxSubs
    /\ \E does \in Behaviours : ECommit(once(em, does))

EvOff ==
    \E n \in 1..Len(em.subs) :
        /\ findIndex(em.events, n) # 0
        /\ ECommit(off(em, n))

EvEmit ==
    /\ em.emits < MaxEmits
    /\ ECommit(hostEmit(em))

EventNext ==
    \/ EvOn
    \/ EvOnce
    \/ EvOff
    \/ EvEmit

(***************************************************************************)
(* ConfigManager.createConfig.  A configuration value is an atom (a string, *)
(* a number, a boolean, null, an array) or an object, a function from its   *)
(* own keys to values; the defaults are cut down to volume and pip, which   *)
(* nests two levels deep.                                                   *)
(***************************************************************************)
Atom(v) == [t |-> "atom", v |-> v]
Object(f) == [t |-> "obj", f |-> f]

\* ConfigManager.isObject: not null, typeof 'object', not an array
isObject(item) == item.t = "obj"

\* this.defaultConfig
defaultConfig ==
    Object([volume |-> Atom("1"),
            pip |-> Object([enabled |-> Atom("true"),
                            size |-> Object([width |-> Atom("320"),
                                             height |-> Atom("180")])])])

\* the objects with keys among `keys` and values among `values`
Objects(keys, values) == {Object(f) : f \in UNION {[K -> values] : K \in SUBSET keys}}

\* what a user gives for a key: a value of their own or null, or an object
UserAtoms == {Atom("user"), Atom("null")}
UserSizes == UserAtoms \cup Objects({"width", "height"}, UserAtoms)
UserPips == UserAtoms \cup Objects({"enabled", "size"}, UserSizes)
UserConfigs == Objects({"volume", "pip"}, UserPips)

\* A mutation of deepMerge: Object.assign, the nested objects are not merged.
deepMergeShallow(target, source) ==
    Object([key \in DOMAIN target.f \cup DOMAIN source.f |->
               IF key \in DOMAIN source.f THEN source.f[key] ELSE target.f[key]])

\* A mutation of deepMerge: the result starts empty instead of as a copy of target.
deepMergeFromEmpty(target, source) ==
    Object([key \in DOMAIN source.f |->
               IF isObject(source.f[key]) /\ key \in DOMAIN target.f
                                          /\ isObject(target.f[key])
               THEN deepMergeShallow(target.f[key], source.f[key])
               ELSE source.f[key]])

\* ConfigManager.deepMerge
RECURSIVE deepMerge(_, _)
deepMerge(target, source) ==
    Object([key \in DOMAIN target.f \cup DOMAIN source.f |->
               IF key \notin DOMAIN source.f THEN target.f[key]
               ELSE IF isObject(source.f[key]) /\ key \in DOMAIN target.f
                                               /\ isObject(target.f[key])
                    THEN deepMerge(target.f[key], source.f[key])
                    ELSE source.f[key]])

\* ConfigManager.createConfig, on configurations as trees
createConfigTree(userConfig) == deepMerge(defaultConfig, userConfig)

\* nothing has been merged yet
NoMerge == [created |-> FALSE, config |-> Object(<< >>), merged |-> FALSE,
            self |-> Object(<< >>)]

\* A JavaScript number: a finite value (in tenths), NaN, Infinity or -Infinity
Num(n) == [kind |-> "finite", n |-> n]
NaN == [kind |-> "NaN", n |-> 0]
Infinity == [kind |-> "Infinity", n |-> 0]
MinusInfinity == [kind |-> "-Infinity", n |-> 0]

\* ToBoolean of a number: 0 and NaN are falsy
TruthyNumber(x) == x.kind # "NaN" /\ (x.kind = "finite" => x.n # 0)

\* x < 0 and x > 1 (one is 10 tenths); every comparison with NaN is false
LessThanZero(x) == x.kind = "-Infinity" \/ (x.kind = "finite" /\ x.n < 0)
MoreThanOne(x) == x.kind = "Infinity" \/ (x.kind = "finite" /\ x.n > 10)

\* Number.isFinite
isFinite(x) == x.kind = "finite"

\* the merged configurations a player is initialised with: videoUrl '' is the
\* default of a missing videoUrl
InitConfigs ==
    [videoUrl : {<< >>, UrlClipMp4},
     startOffset : {Num(0), Num(50), Num(-10), NaN, Infinity},
     volume : {Num(0), Num(5), Num(10), Num(20), Num(-5)}]

ValidConfig == [videoUrl |-> UrlClipMp4, startOffset |-> Num(0), volume |-> Num(10)]

NoOutcome == [op |-> "none", outcome |-> "none", message |-> << >>]

\* ConfigManager.validateConfig: the errors it collects
validateConfig(config) ==
    (IF ~Truthy(config.videoUrl) THEN <<"videoUrl is required">> ELSE << >>)
    \o (IF TruthyNumber(config.startOffset)
            /\ (LessThanZero(config.startOffset) \/ ~isFinite(config.startOffset))
        THEN <<"startOffset must be a positive number">> ELSE << >>)
    \o (IF TruthyNumber(config.volume)
            /\ (LessThanZero(config.volume) \/ MoreThanOne(config.volume))
        THEN <<"volume must be between 0 and 1">> ELSE << >>)

\* UniversalPlayer.init: createConfig, new PlayerInstance, instances.set; the
\* instance is returned
universalPlayerInit(config) ==
    [op |-> "init", outcome |-> "PlayerInstance", message |-> << >>]

ConfigIdle ==
    /\ ucfg = Object(<< >>)
    /\ mcfg = NoMerge
    /\ vcfg = ValidConfig
    /\ vout = NoOutcome

\* configManager.createConfig(userConfig)
CreateConfig ==
    /\ ~mcfg.created
    /\ mcfg' = [mcfg EXCEPT !.created = TRUE, !.config = createConfigTree(ucfg)]
    /\ UNCHANGED <<playerVars, factoryVars, analyticsVars, em, ucfg, vcfg, vout, qs, pg>>

\* configManager.deepMerge(defaultConfig, defaultConfig)
MergeDefaults ==
    /\ ~mcfg.merged
    /\ mcfg' = [mcfg EXCEPT !.merged = TRUE, !.self = deepMerge(defaultConfig, defaultConfig)]
    /\ UNCHANGED <<playerVars, factoryVars, analyticsVars, em, ucfg, vcfg, vout, qs, pg>>

ConfigNext == CreateConfig \/ MergeDefaults

\* configManager.validateConfig(config) called by a host
ValidateConfig ==
    /\ vout.op = "none"
    /\ LET errors == validateConfig(vcfg)
       IN vout' = IF errors = << >>
                  THEN [op |-> "validate", outcome |-> "config", message |-> << >>]
                  ELSE [op |-> "validate", outcome |-> "Error", message |-> errors]
    /\ UNCHANGED <<playerVars, factoryVars, analyticsVars, em, ucfg, mcfg, vcfg, qs, pg>>

\* player.init(container, config) called by a host
InitWithConfig ==
    /\ vout.op = "none"
    /\ vout' = universalPlayerInit(vcfg)
    /\ UNCHANGED <<playerVars, factoryVars, analyticsVars, em, ucfg, mcfg, vcfg, qs, pg>>

ValidationNext == ValidateConfig \/ InitWithConfig

(***************************************************************************)
(* HLSSource and DASHSource: quality switching.  `backend` says that        *)
(* this.hls or this.dashPlayer is set; `level` and `autoSwitch` are the     *)
(* backend's selected level (-1 is automatic) and its auto-switch mode;      *)
(* `stateQuality` is state.quality of the PlayerInstance that owns the      *)
(* source.                                                                  *)
(***************************************************************************)
\* the names of hls.levels and of getBitrateInfoListFor('video'), best first
Levels == <<"1080p", "720p", "480p">>

\* the names a caller asks for
QualityNames == {"auto", "1080p", "720p", "4k"}

\* new HLSSource / new DASHSource
NewQualitySource(kind) ==
    [kind |-> kind, backend |-> FALSE, qualities |-> << >>, currentQuality |-> "auto",
     level |-> -1, autoSwitch |-> TRUE, emitted |-> << >>, op |-> "none", arg |-> "none",
     stateQuality |-> "auto"]

\* new Mp4Source: qualities = ['auto'], and no streaming backend
NewMp4Source == [NewQualitySource("mp4") EXCEPT !.qualities = <<"auto">>]

QualityIdle == qs = NewQualitySource("hls")

\* the step `op` starts: nothing has been emitted by it yet
QBegin(op, arg) == [qs EXCEPT !.op = op, !.arg = arg, !.emitted = << >>]

\* extractQualities: 'auto', then the levels of the backend
extractQualities(q) ==
    IF ~q.backend THEN q ELSE [q EXCEPT !.qualities = <<"auto">> \o Levels]

\* this.qualities.find(q => q.name === quality): its position, 0 for undefined
find(qualities, quality) ==
    IF \E i \in 1..Len(qualities) : qualities[i] = quality
    THEN CHOOSE i \in 1..Len(qualities) :
             qualities[i] = quality /\ \A j \in 1..(i - 1) : qualities[j] # quality
    ELSE 0

\* the level (HLS) or index (DASH) of the entry at a position of this.qualities
LevelAt(position) == position - 2

\* A mutation of HLSSource.setQuality: an unmatched name selects automatic quality.
hlsSetQualityDefaultsToAuto(q, quality) ==
    IF ~q.backend THEN q
    ELSE LET position == find(q.qualities, quality)
         IN IF position = 0
            THEN [q EXCEPT !.level = -1, !.currentQuality = "auto",
                           !.emitted = Append(@, "auto")]
            ELSE [q EXCEPT !.level = LevelAt(position), !.currentQuality = quality,
                           !.emitted = Append(@, quality)]

\* HLSSource.setQuality
hlsSetQuality(q, quality) ==
    IF ~q.backend THEN q
    ELSE LET position == find(q.qualities, quality)
         IN IF position = 0 THEN q
            ELSE [q EXCEPT !.level = LevelAt(position), !.currentQuality = quality,
                           !.emitted = Append(@, quality)]

\* DASHSource.setQuality
dashSetQuality(q, quality) ==
    IF ~q.backend THEN q
    ELSE IF quality = "auto"
         THEN [q EXCEPT !.autoSwitch = TRUE, !.currentQuality = "auto",
                        !.emitted = Append(@, "auto")]
    ELSE LET position == find(q.qualities, quality)
         IN IF position = 0 THEN q
            ELSE [q EXCEPT !.autoSwitch = FALSE, !.level = LevelAt(position),
                           !.currentQuality = quality, !.emitted = Append(@, quality)]

\* Mp4Source.setQuality: logs only
mp4SetQuality(q, quality) == q

\* mediaSource.setQuality of the source the factory created
sourceSetQuality(q, quality) ==
    CASE q.kind = "hls" -> hlsSetQuality(q, quality)
      [] q.kind = "dash" -> dashSetQuality(q, quality)
      [] OTHER -> mp4SetQuality(q, quality)

\* PlayerInstance.setQuality; its analyticsManager.track returns at once while the
\* analytics has no enabled config
playerSetQuality(q, quality) ==
    [sourceSetQuality(q, quality) EXCEPT !.stateQuality = quality]

\* LEVEL_SWITCHED (HLS) and qualityChangeRendered (DASH): this.qualities[level]?.name
\* || 'auto', where this.qualities[0] is the entry 'auto'
levelSwitched(q, level) ==
    LET name == IF level + 1 \in 1..Len(q.qualities) THEN q.qualities[level + 1] ELSE "auto"
    IN [q EXCEPT !.level = level, !.currentQuality = name, !.emitted = Append(@, name)]

\* HLSSource.destroy / DASHSource.destroy
qualityDestroy(q) ==
    [q EXCEPT !.backend = FALSE, !.qualities = << >>, !.currentQuality = "auto"]

QCommit(q) ==
    /\ qs' = q
    /\ UNCHANGED <<playerVars, factoryVars, analyticsVars, em, configVars, pg>>

\* load() has created the backend: this.hls = await createHLSInstance(), this.dashPlayer
\* = await createDASHInstance()
QBackendCreated ==
    /\ qs.kind # "mp4"
    /\ ~qs.backend /\ qs.op = "none"
    /\ QCommit([QBegin("create", "none") EXCEPT !.backend = TRUE])

\* MANIFEST_PARSED (HLS); dashPlayer.initialize has resolved, or streamInitialized
\* (DASH): a later step than the creation of the backend, load() awaits in between
QExtract ==
    /\ qs.backend /\ qs.qualities = << >>
    /\ QCommit(extractQualities(QBegin("extract", "none")))

QSetQuality ==
    \E quality \in QualityNames :
        QCommit(IF qs.kind = "hls" THEN hlsSetQuality(QBegin("setQuality", quality), quality)
                ELSE dashSetQuality(QBegin("setQuality", quality), quality))

\* the host or the quality menu of the UI calls PlayerInstance.setQuality
QPlayerSetQuality ==
    \E quality \in QualityNames :
        QCommit(playerSetQuality(QBegin("playerSetQuality", quality), quality))

\* the backend has switched to a level by itself
QLevelSwitched ==
    /\ qs.backend
    /\ \E level \in 0..(Len(Levels) - 1) :
          QCommit(levelSwitched(QBegin("levelSwitched", "none"), level))

QDestroy ==
    /\ qs.op # "destroy"
    /\ QCommit(qualityDestroy(QBegin("destroy", "none")))

QualityNext ==
    \/ QBackendCreated
    \/ QExtract
    \/ QSetQuality
    \/ QLevelSwitched
    \/ QDestroy

(***************************************************************************)
(* A page with several instances.  UniversalPlayer is a singleton and      *)
(* hands its one AdManager to every PlayerInstance; `pg` holds the         *)
(* instances, the children of their containers and that AdManager.  The    *)
(* container, config and adContainer of the AdManager are named by the     *)
(* instance whose init set them.                                           *)
(***************************************************************************)
\* config.adRolls of an instance
PageRolls ==
    { [preRoll |-> TRUE, postRoll |-> FALSE, pauseRoll |-> TRUE],
      [preRoll |-> FALSE, postRoll |-> TRUE, pauseRoll |-> FALSE] }

RollTypes == {"preRoll", "postRoll", "pauseRoll"}

\* AdManager constructor
NewAdManager ==
    [container |-> "null", config |-> "null", adContainer |-> "null",
     isPlayingAd |-> FALSE, adElement |-> FALSE, currentAd |-> "null"]

NoCall == [op |-> "none", by |-> "none", outcome |-> "none"]

NewPage ==
    [live |-> [p \in Players |-> "none"],
     rolls |-> [p \in Players |-> CHOOSE r \in PageRolls : r.preRoll],
     dom |-> [p \in Players |-> {}],
     adm |-> NewAdManager,
     call |-> NoCall]

PageIdle == pg = NewPage

\* AdManager.init(container, config) -> createAdContainer
pageAdInit(g, p) ==
    [g EXCEPT !.adm.container = p, !.adm.config = p, !.adm.adContainer = p,
              !.dom[p] = @ \cup {"up-ad-container"}]

\* UIManager.createPlayerStructure: container.innerHTML = ''
pageUiBuild(g, p) == [g EXCEPT !.dom[p] = {"up-player"}]

\* UniversalPlayer.init -> new PlayerInstance -> init, up to its first await
pageInit(g, p, adRolls) ==
    LET g1 == [g EXCEPT !.live[p] = "live", !.rolls[p] = adRolls]
    IN pageUiBuild(pageAdInit(g1, p), p)

\* AdManager.cleanupAd
pageCleanupAd(g) == [g EXCEPT !.adm.isPlayingAd = FALSE, !.adm.adElement = FALSE]

\* AdManager.destroy: adContainer.remove() takes the element out of the container
\* it is a child of
pageAdDestroy(g) ==
    LET g1 == pageCleanupAd(g)
        owner == g1.adm.adContainer
        g2 == IF owner = "null" THEN g1
              ELSE [g1 EXCEPT !.dom[owner] = @ \ {"up-ad-container"}]
    IN [g2 EXCEPT !.adm.adContainer = "null", !.adm.container = "null",
                  !.adm.config = "null"]

\* PlayerInstance.destroy
pageDestroy(g, p) ==
    [pageAdDestroy([g EXCEPT !.dom[p] = {}]) EXCEPT !.live[p] = "destroyed",
                                                    !.dom[p] = {}]

\* what playPreRoll, playPostRoll or playPauseRoll does on the AdManager adm:
\* this.config.preRoll throws on a null config (the promise of the async method is
\* rejected), a roll that is not configured resolves at once, and playAd starts the
\* ad, its promise pending
rollOutcome(g, type) ==
    IF g.adm.config = "null" THEN "rejected"
    ELSE IF ~g.rolls[g.adm.config][type] THEN "resolved"
    ELSE IF g.adm.adContainer = "null" THEN "rejected"
    ELSE "started"

\* AdManager.playPreRoll, playPostRoll, playPauseRoll -> playAd
pagePlayRoll(g, type) ==
    IF rollOutcome(g, type) # "started" THEN g
    ELSE [g EXCEPT !.adm.currentAd = type, !.adm.isPlayingAd = TRUE,
                   !.adm.adElement = TRUE]

\* AdManager.onAdEnded
pageOnAdEnded(g) ==
    IF g.adm.currentAd = "null" THEN g
    ELSE [pageCleanupAd(g) EXCEPT !.adm.currentAd = "null"]

PCommit(g) ==
    /\ pg' = g
    /\ UNCHANGED <<playerVars, factoryVars, analyticsVars, em, configVars, qs>>

\* the host calls UniversalPlayer.init(container, config)
PageInit ==
    \E p \in Players, adRolls \in PageRolls :
        /\ pg.live[p] = "none"
        /\ PCommit([pageInit(pg, p, adRolls) EXCEPT
                        !.call = [op |-> "init", by |-> p, outcome |-> "none"]])

\* the host calls UniversalPlayer.destroy(playerId)
PageDestroy ==
    \E p \in Players :
        /\ pg.live[p] = "live"
        /\ PCommit([pageDestroy(pg, p) EXCEPT
                        !.call = [op |-> "destroy", by |-> p, outcome |-> "none"]])

\* the host plays a roll through a live instance: instance.adManager.playPreRoll()
PagePlayRoll ==
    \E p \in Players, type \in RollTypes :
        /\ pg.live[p] = "live"
        /\ pg.adm.currentAd = "null"
        /\ PCommit([pagePlayRoll(pg, type) EXCEPT
                        !.call = [op |-> type, by |-> p,
                                  outcome |-> rollOutcome(pg, type)]])

\* the ad element reports ended
PageAdEnds ==
    /\ pg.adm.adElement
    /\ PCommit([pageOnAdEnded(pg) EXCEPT
                    !.call = [op |-> "adEnds", by |-> "none", outcome |-> "resolved"]])

PageNext ==
    \/ PageInit
    \/ PageDestroy
    \/ PagePlayRoll
    \/ PageAdEnds

\* the components that take no part in the life of one instance are at rest
MoreIdle == EventIdle /\ ConfigIdle /\ QualityIdle /\ PageIdle

(***************************************************************************)
(* The player: initial state and actions.                                  *)
(***************************************************************************)
PlayerInit ==
    /\ pc = "new"
    /\ state = InitialState
    /\ ms = NoSource
    /\ el = NewElement
    /\ queue = << >>
    /\ pending = << >>
    /\ ui = [exists |-> FALSE, built |-> FALSE, listeners |-> FALSE,
             controlsVisible |-> TRUE, hideTimeout |-> FALSE]
    /\ container = {}
    /\ ad = [config |-> FALSE, adContainer |-> "null", currentAd |-> FALSE,
             isPlayingAd |-> FALSE, adElement |-> FALSE, adType |-> "none",
             promise |-> "none", skipButton |-> "none", adTime |-> 0]
    /\ an = [config |-> "null", trackingQueue |-> << >>]
    /\ obs = NoObs
    /\ hist = NoHist
    /\ lastOp = [src |-> "none", op |-> "none"]
    /\ out = << >>

FactoryIdle ==
    /\ req = [url |-> UrlClipMp4, type |-> Absent, priority |-> Absent]
    /\ detected = "pending"
    /\ made = NoResult
    /\ inst = NoResult

Init == cfg \in Configs /\ PlayerInit /\ FactoryIdle /\ AnalyticsIdle /\ MoreIdle

Room == Len(queue) < MaxQueue

\* new PlayerInstance(...)
Construct ==
    /\ pc = "new"
    /\ Commit(initStart(Begin("init", "construct")))

\* the promise of uiManager.build() settles
ContinueInit ==
    /\ pc = "awaitBuild"
    /\ Commit(initAfterBuild(Begin("settle", "build")))

\* the event loop runs the element's next task
RunTask ==
    /\ queue # << >>
    /\ LET item == Head(queue)
           src == IF item.kind \in EventKinds THEN "media" ELSE "settle"
       IN Commit(run([Begin(src, item.kind) EXCEPT !.queue = Tail(queue)], item))

\* the element has decoded the first frame: loadeddata
LoadSucceeds ==
    /\ el.src = "url" /\ ~el.loaded /\ el.error = "none"
    /\ Commit(enqueue([Begin("env", "loads") EXCEPT !.el.loaded = TRUE], Item("loadeddata")))

\* the element fails to load its resource: error.  An empty src (after destroy) is
\* never supported; a resource may also fail in the network or the decoder
LoadFails ==
    /\ el.src \in {"url", "empty"} /\ ~el.loaded /\ el.error = "none"
    /\ \E code \in {"src", "other"} :
          /\ el.src = "empty" => code = "src"
          /\ Commit(enqueue([Begin("env", "fails") EXCEPT !.el.error = code],
                            Item("error")))

\* playback has started: the element resolves its pending play() promises
NotifyPlaying ==
    /\ el.loaded /\ ~el.paused /\ pending # << >>
    /\ Commit([enqueue(Begin("env", "playing"), [Item("resolve") EXCEPT !.calls = pending])
                 EXCEPT !.pending = << >>])

\* playback advances
TimePasses ==
    /\ el.loaded /\ ~el.paused /\ el.time < MaxTime
    /\ Commit(enqueue([Begin("env", "time") EXCEPT !.el.time = @ + 1], Item("timeupdate")))

\* playback reaches the end: the element pauses itself, then reports ended
MediaEnds ==
    /\ el.loaded /\ ~el.paused
    /\ Commit(enqueue(elementPause([Begin("env", "ends") EXCEPT !.el.time = MaxTime]),
                      Item("ended")))

\* A method is called by the host, or by the listener PlayerInstance subscribed to
\* the ui:* event of UIManager, which runs only while it is subscribed.
Callable(via) == pc # "new" /\ (via = "ui" => ui.listeners) /\ Room

\* a counted call (seek, volume, mute, rate, quality, loadVideo)
Setting(via, op) == [Begin(via, op) EXCEPT !.hist.calls = @ + 1]

MaySet(via) == Callable(via) /\ hist.calls < MaxCalls

\* play() on a ready instance that is not playing and whose element is paused
PlayPrecondition == pc = "ready" /\ ~state.playing /\ el.paused /\ ~hist.destroyed

CallPlay(via) ==
    /\ Callable(via)
    /\ Len(pending) < MaxPending
    /\ \E observe \in BOOLEAN :
          /\ observe => (obs.phase # "pending" /\ PlayPrecondition)
          /\ LET w1 == [Begin(via, "play") EXCEPT !.hist.playCalled = TRUE,
                                            !.obs = IF observe
                                                    THEN [NoObs EXCEPT !.phase = "pending"]
                                                    ELSE @]
             IN Commit(play(w1, "api", observe))

CallPause(via) ==
    /\ Callable(via)
    /\ Commit(pause(Begin(via, "pause")))

CallSeek(via) ==
    /\ MaySet(via)
    /\ \E time \in Times : Commit(seek(Setting(via, "seek"), time))

CallSetVolume(via) ==
    /\ MaySet(via)
    /\ \E volume \in Volumes : Commit(setVolume(Setting(via, "setVolume"), volume))

CallToggleMute(via) ==
    /\ MaySet(via)
    /\ Commit(toggleMute(Setting(via, "toggleMute")))

CallSetPlaybackRate(via) ==
    /\ MaySet(via)
    /\ \E rate \in Rates : Commit(setPlaybackRate(Setting(via, "setPlaybackRate"), rate))

CallSetQuality(via) ==
    /\ MaySet(via)
    /\ \E quality \in Qualities : Commit(setQuality(Setting(via, "setQuality"), quality))

CallLoadVideo ==
    /\ MaySet("host")
    /\ Commit(loadVideo(Setting("host", "loadVideo"), NextUrl))

CallDestroy ==
    /\ pc # "new"
    /\ ~hist.destroyed
    /\ Commit(destroy(Begin("host", "destroy")))

\* the host starts the pre-roll on the shared AdManager
AdStarts ==
    /\ pc # "new"
    /\ ~ad.currentAd
    /\ Commit(adPlayPreRoll(Begin("env", "adStarts")))

\* the host starts the post-roll or the pause-roll
AdStartsLater ==
    /\ pc # "new"
    /\ ~ad.currentAd
    /\ \/ Commit(adPlayPostRoll(Begin("env", "adStarts")))
       \/ Commit(adPlayPauseRoll(Begin("env", "adStarts")))

\* the host starts a configured roll while an ad is playing: playAd replaces
\* currentAd, and with it the only reference to the resolve and reject of the ad that
\* was playing; the history counts the promises left pending that way
AdStartsOver ==
    /\ pc # "new"
    /\ ad.currentAd /\ ad.config
    /\ hist.orphaned < MaxInterrupts
    /\ \E adType \in {"preroll", "postroll", "pauseroll"} :
          /\ \/ adType = "preroll" /\ cfg.preRoll
             \/ adType = "postroll" /\ cfg.postRoll
             \/ adType = "pauseroll" /\ cfg.pauseRoll
          /\ Commit(playAd([Begin("env", "adStartsOver") EXCEPT
                               !.hist.orphaned =
                                   IF ad.promise = "pending" THEN @ + 1 ELSE @],
                           adType))

\* the ad element reports ended
AdEnds ==
    /\ ad.adElement
    /\ Commit(onAdEnded(Begin("env", "adEnds")))

\* the ad plays on: timeupdate of the ad element
AdTime ==
    /\ ad.adElement
    /\ ad.adTime < MaxAdTime
    /\ Commit(updateSkipButton([Begin("env", "adTime") EXCEPT !.ad.adTime = @ + 1]))

\* the ad element reports an error
AdError ==
    /\ ad.adElement
    /\ Commit(onAdError(Begin("env", "adError")))

\* the viewer clicks the skip button, which is possible while it is displayed
SkipClick ==
    /\ ad.skipButton \in {"countdown", "skip"}
    /\ Commit(skipAd(Begin("ui", "adSkip")))

\* the player element is in the document with the listeners of build() on it
UiLive == ui.built /\ cfg.uiOk /\ "up-player" \in container

\* mousemove on the player element: showControls, then autoHide
MouseMove ==
    /\ UiLive
    /\ Commit(autoHide(showControls(Begin("pointer", "mousemove"))))

\* touchstart on the player element: autoHide
TouchStart ==
    /\ UiLive /\ ~cfg.controlsAlwaysVisible /\ ~ui.hideTimeout
    /\ Commit(autoHide(Begin("pointer", "touchstart")))

\* mouseleave on the player element: hideControls
MouseLeave ==
    /\ UiLive
    /\ Commit(hideControls(Begin("pointer", "mouseleave")))

\* the idle timeout set by autoHide expires
HideTimeoutFires ==
    /\ ui.hideTimeout
    /\ Commit(hideTimeoutFires(Begin("timer", "hideTimeout")))

Vias == {"host", "ui"}

\* The life of an instance: initialisation, playback, ads, destruction.
Next ==
    \/ Construct
    \/ ContinueInit
    \/ RunTask
    \/ LoadSucceeds
    \/ LoadFails
    \/ NotifyPlaying
    \/ TimePasses
    \/ MediaEnds
    \/ \E via \in Vias : CallPlay(via)
    \/ \E via \in Vias : CallPause(via)
    \/ CallDestroy
    \/ AdStarts
    \/ AdEnds

Spec == Init /\ [][Next]_vars

\* The calls of host and UI on an instance, with the element's answers.
IntentNext ==
    \/ Construct
    \/ ContinueInit
    \/ RunTask
    \/ LoadSucceeds
    \/ NotifyPlaying
    \/ \E via \in Vias : CallPlay(via)
    \/ \E via \in Vias : CallPause(via)
    \/ \E via \in Vias : CallSeek(via)
    \/ \E via \in Vias : CallSetVolume(via)
    \/ \E via \in Vias : CallToggleMute(via)
    \/ \E via \in Vias : CallSetPlaybackRate(via)
    \/ \E via \in Vias : CallSetQuality(via)
    \/ CallLoadVideo
    \/ CallDestroy

IntentSpec == Init /\ [][IntentNext]_vars

\* The controls of an instance: the pointer moves, touches and leaves, the idle
\* timeout expires, the media is played, paused and ends.
ControlsNext ==
    \/ Construct
    \/ ContinueInit
    \/ RunTask
    \/ LoadSucceeds
    \/ NotifyPlaying
    \/ MediaEnds
    \/ \E via \in Vias : CallPlay(via)
    \/ \E via \in Vias : CallPause(via)
    \/ CallDestroy
    \/ MouseMove
    \/ TouchStart
    \/ MouseLeave
    \/ HideTimeoutFires

ControlsSpec == Init /\ [][ControlsNext]_vars

\* The ad breaks of an instance: the host plays the rolls, the ad element plays,
\* ends or fails, the viewer skips, the instance is destroyed.
AdNext ==
    \/ Construct
    \/ ContinueInit
    \/ AdStarts
    \/ AdStartsLater
    \/ AdTime
    \/ AdEnds
    \/ AdError
    \/ SkipClick
    \/ CallDestroy

AdSpec == Init /\ [][AdNext]_vars

\* An ad element that is in the document plays to its end unless it fails, is skipped
\* or is removed first.
AdLiveSpec == Init /\ [][AdNext]_vars /\ WF_vars(AdEnds)

\* The ad breaks of an instance whose host may also start an ad during an ad.
AdInterruptNext ==
    \/ AdNext
    \/ AdStartsOver

AdInterruptSpec == Init /\ [][AdInterruptNext]_vars /\ WF_vars(AdEnds)

(***************************************************************************)
(* The factory on its own: every request over the bounded URLs.            *)
(***************************************************************************)
FactoryInit ==
    /\ cfg = DefaultConfig
    /\ PlayerInit
    /\ req \in [url : Urls, type : RequestTypes, priority : Priorities]
    /\ detected = "pending"
    /\ made = NoResult
    /\ inst = NoResult
    /\ AnalyticsIdle
    /\ MoreIdle

Detect ==
    /\ detected = "pending"
    /\ detected' = detectMediaType(req.url, req.priority)
    /\ UNCHANGED <<req, made, inst>>
    /\ UNCHANGED <<playerVars, analyticsVars, moreVars>>

Create ==
    /\ made = NoResult
    /\ made' = createMediaSource(req.url, req.type, req.priority)
    /\ UNCHANGED <<req, detected, inst>>
    /\ UNCHANGED <<playerVars, analyticsVars, moreVars>>

\* UniversalPlayer.init(container, userConfig) -> new PlayerInstance -> init: the media
\* source is created from the merged configuration
InitPlayer ==
    /\ inst = NoResult
    /\ LET config == createConfig(req)
       IN inst' = createMediaSource(config.videoUrl, config.mediaType, config.priority)
    /\ UNCHANGED <<req, detected, made>>
    /\ UNCHANGED <<playerVars, analyticsVars, moreVars>>

FactoryNext == Detect \/ Create \/ InitPlayer

FactorySpec == FactoryInit /\ [][FactoryNext]_vars
(***************************************************************************)
(* The analytics of a page with two players.                               *)
(***************************************************************************)
ACommit(a) ==
    /\ am' = a.am /\ loops' = a.loops /\ aop' = a.aop /\ ahist' = a.ahist
    /\ now' = a.now
    /\ UNCHANGED <<playerVars, factoryVars, moreVars>>

AnalyticsInit ==
    cfg = DefaultConfig /\ PlayerInit /\ FactoryIdle /\ AnalyticsIdle /\ MoreIdle

\* PlayerInstance.init of a new player: analyticsManager.init(this.id, config.eventTracking)
AnInit ==
    \E p \in Players, c \in AnConfigs :
        /\ ahist.own[p] = NullConfig
        /\ am.isTracking \/ Len(loops) < MaxLoops
        /\ am.trackingQueue = << >> \/ ahist.flushes < MaxFlushes
        /\ ACommit(analyticsManagerInit(ABegin("init"), p, c))

\* API calls of a player are tracked: `calls` of them in one task
AnTrack ==
    \E p \in Trackers, calls \in Bursts :
        /\ ahist.own[p] # NullConfig
        /\ ahist.steps < MaxTrackSteps
        /\ ACommit(trackTimes([ABegin("track") EXCEPT !.ahist.steps = @ + 1], calls, p))

\* PlayerInstance.handleTimeUpdate: trackProgress(this.id, currentTime, duration).
\* The history notes whether the progress has reached the threshold the player was
\* configured with, during its session
AnProgress ==
    \E p \in Players, currentTime \in ProgressTimes, duration \in Durations :
        /\ ahist.own[p] # NullConfig
        /\ LET hit == /\ p \in DOMAIN am.sessionData
                      /\ duration # 0
                      /\ (currentTime * 100) \div duration >= ahist.own[p].viewedThreshold
               a0 == [ABegin("progress") EXCEPT !.ahist.reached[p] = @ \/ hit]
           IN ACommit(trackProgress(a0, p, currentTime, duration))

\* time passes
Tick ==
    /\ now < MaxNow
    /\ ACommit([ABegin("tick") EXCEPT !.now = @ + 1])

\* a play or pause of player p is tracked in its session
Tracked(p) == Enabled(AWorld) /\ p \in DOMAIN am.sessionData

\* PlayerInstance.play: track('play').  The history notes when the play interval
\* began: at the first play since the last pause, or at the latest
AnPlay ==
    \E p \in Players :
        /\ Tracked(p)
        /\ ahist.steps < MaxStatEvents
        /\ ACommit(analyticsTrack(
               [ABegin("play") EXCEPT !.ahist.steps = @ + 1,
                                      !.ahist.firstPlay[p] = IF @ = 0 THEN now ELSE @,
                                      !.ahist.lastPlay[p] = now],
               "play", p))

\* PlayerInstance.pause: track('pause').  The history closes the play interval and
\* adds its duration, counted from the latest play (atLeast) and from the first
\* (atMost)
AnPause ==
    \E p \in Players :
        /\ Tracked(p)
        /\ ahist.steps < MaxStatEvents
        /\ ACommit(analyticsTrack(
               [ABegin("pause") EXCEPT
                    !.ahist.steps = @ + 1,
                    !.ahist.atLeast[p] = IF ahist.lastPlay[p] = 0 THEN @
                                          ELSE @ + (now - ahist.lastPlay[p]),
                    !.ahist.atMost[p] = IF ahist.firstPlay[p] = 0 THEN @
                                         ELSE @ + (now - ahist.firstPlay[p]),
                    !.ahist.firstPlay[p] = 0, !.ahist.lastPlay[p] = 0],
               "pause", p))

AnCleanup ==
    \E p \in Players :
        /\ p \in DOMAIN am.sessionData
        /\ ACommit(cleanup(ABegin("cleanup"), p))

\* sleep(1000) of an invocation of processTrackingQueue is over
LoopWakes ==
    \E i \in 1..Len(loops) :
        /\ loops[i].at = "sleep"
        /\ am.trackingQueue = << >> \/ ahist.flushes < MaxFlushes
        /\ ACommit(processTrackingQueue(ABegin("flush"), i))

SendOk ==
    \E i \in 1..Len(loops) :
        /\ loops[i].at = "send"
        /\ ACommit(sendOk(ABegin("sendOk"), i))

SendNotOk ==
    \E i \in 1..Len(loops) :
        /\ loops[i].at = "send"
        /\ ACommit(sendNotOk(ABegin("sendNotOk"), i))

SendThrows ==
    \E i \in 1..Len(loops) :
        /\ loops[i].at = "send"
        /\ ACommit(sendThrows(ABegin("sendThrows"), i))

StopTracking ==
    /\ am.isTracking
    /\ ACommit(stopTracking(ABegin("stop")))

\* The sessions of the players: initialisation, progress, cleanup, and the flush loop.
AnalyticsNext ==
    \/ AnInit
    \/ AnProgress
    \/ AnCleanup
    \/ LoopWakes
    \/ SendOk
    \/ SendNotOk
    \/ SendThrows

AnalyticsSpec == AnalyticsInit /\ [][AnalyticsNext]_vars

\* The play time of the sessions: plays and pauses tracked as time passes.
PlayTimeNext ==
    \/ AnInit
    \/ Tick
    \/ AnPlay
    \/ AnPause

PlayTimeSpec == AnalyticsInit /\ [][PlayTimeNext]_vars

\* The tracking queue: events tracked, batches flushed and sent, the loop stopped and
\* started again.
FlushNext ==
    \/ AnInit
    \/ AnTrack
    \/ LoopWakes
    \/ SendOk
    \/ SendNotOk
    \/ SendThrows
    \/ StopTracking

FlushSpec == AnalyticsInit /\ [][FlushNext]_vars
\* createConfig on its own: every user configuration over the bounded values.
ConfigInit ==
    /\ cfg = DefaultConfig /\ PlayerInit /\ FactoryIdle /\ AnalyticsIdle /\ EventIdle
    /\ QualityIdle /\ PageIdle
    /\ ucfg \in UserConfigs
    /\ mcfg = NoMerge
    /\ vcfg = ValidConfig
    /\ vout = NoOutcome

ConfigSpec == ConfigInit /\ [][ConfigNext]_vars

\* Initialisation and validation over the bounded configurations.
ValidationInit ==
    /\ cfg = DefaultConfig /\ PlayerInit /\ FactoryIdle /\ AnalyticsIdle /\ EventIdle
    /\ QualityIdle /\ PageIdle
    /\ ucfg = Object(<< >>)
    /\ mcfg = NoMerge
    /\ vcfg \in InitConfigs
    /\ vout = NoOutcome

ValidationSpec == ValidationInit /\ [][ValidationNext]_vars

\* An HLS or a DASH source on its own.
QualityInit ==
    /\ cfg = DefaultConfig /\ PlayerInit /\ FactoryIdle /\ AnalyticsIdle /\ EventIdle
    /\ ConfigIdle /\ PageIdle
    /\ qs \in {NewQualitySource("hls"), NewQualitySource("dash")}

QualitySpec == QualityInit /\ [][QualityNext]_vars

\* The quality of a PlayerInstance over an HLS, a DASH or an MP4 source.
PlayerQualityInit ==
    /\ cfg = DefaultConfig /\ PlayerInit /\ FactoryIdle /\ AnalyticsIdle /\ EventIdle
    /\ ConfigIdle /\ PageIdle
    /\ qs \in {NewQualitySource("hls"), NewQualitySource("dash"), NewMp4Source}

PlayerQualityNext ==
    \/ QBackendCreated
    \/ QExtract
    \/ QPlayerSetQuality
    \/ QLevelSwitched

PlayerQualitySpec == PlayerQualityInit /\ [][PlayerQualityNext]_vars

\* The EventManager on its own: the host subscribes, unsubscribes and emits.
EventSpec == AnalyticsInit /\ [][EventNext]_vars

\* The instances of a page and the AdManager they share.
PageSpec == AnalyticsInit /\ [][PageNext]_vars

(***************************************************************************)
(* Properties.                                                             *)
(***************************************************************************)
\* C1: on an instance that has not been destroyed, state.playing is true only if
\* the most recent media event among play, pause and ended was play (the "only if"
\* half of the claim).
C1_PlayingOnlyAfterPlayEvent ==
    (~hist.destroyed /\ state.playing) => hist.lastEvt = "play"

\* the PlaybackState fields the step has changed
ChangedFields == {f \in DOMAIN state : state'[f] # state[f]}

C2_Writes(op) ==
    CASE op.src = "media" -> DOMAIN state
      [] op.src \in {"host", "ui"} /\ op.op = "pause" -> {"playing"}
      [] op.src = "host" /\ op.op \in {"loadVideo", "destroy"} -> {"playing"}
      [] op.src \in {"host", "ui"} /\ op.op = "setVolume" -> {"volume", "muted"}
      [] op.src \in {"host", "ui"} /\ op.op = "toggleMute" -> {"muted"}
      [] op.src \in {"host", "ui"} /\ op.op = "setPlaybackRate" -> {"playbackRate"}
      [] op.src \in {"host", "ui"} /\ op.op = "setQuality" -> {"quality"}
      [] op.src = "settle" /\ op.op = "resolve" -> {"playing"}
      [] op.src = "settle" /\ op.op = "loadeddata" -> {"volume", "muted"}
      [] OTHER -> {}

C3_NotPlayingAtReady ==
    (Emitted(out, "player:ready") > 0 /\ ~cfg.autoplay) => ~state.playing

\* C3 (amended): player:ready is emitted only after load() has resolved; without
\* autoplay, state.playing is false from then on for as long as play() has not been
\* called and no media play event has arrived, whether before or after player:ready.
C3_ReadyAfterLoadAndIdle ==
    /\ hist.readyEmitted => hist.loadState = "resolved"
    /\ (hist.readyEmitted /\ ~cfg.autoplay /\ ~hist.playCalled /\ hist.lastEvt = "none")
          => ~state.playing

\* load() has resolved without autoplay and player:ready has just been emitted
C3_Witness ==
    /\ ~cfg.autoplay
    /\ lastOp.op = "loadeddata"
    /\ Emitted(out, "player:ready") = 1
    /\ hist.loadState = "resolved" /\ ~hist.playCalled
    /\ ~state.playing

\* C4: a play() call on a ready instance that is not playing, whose promise resolves
\* while the instance is alive, leaves state.playing true, and player:play has been
\* emitted exactly once between the call and the resolution.
C4_PlayEmitsOnce ==
    (obs.phase = "resolved" /\ ~hist.destroyed) => (state.playing /\ obs.emits = 1)

\* C5: once initialisation has failed, player:error has been emitted, player:ready
\* is never emitted, and no step brings state.playing from false to true.
C5_FailedInitStaysFailed ==
    [][/\ hist'.initFailed => (hist'.errorEmitted /\ ~hist'.readyEmitted)
       /\ (hist.initFailed /\ ~state.playing) => ~state'.playing]_vars

\* C6: once destroy() has been called, the settlement of a load() or play() promise
\* (within the destroy call that settles it, or in a later task) neither changes
\* PlaybackState nor emits a player:* event.
C6_SettlementAfterDestroyHasNoEffect ==
    [][(hist'.destroyed /\ lastOp'.op \in {"destroy", "loadeddata", "error", "resolve", "reject"})
          => (state' = state /\ out' = << >>)]_vars

\* C7: after destroy() the container has no children, in the state destroy() leaves
\* and in every later one.
C7_ContainerStaysEmpty == hist.destroyed => container = {}

\* destroy() has been called while an ad was showing
C7_Witness ==
    /\ hist.destroyed /\ lastOp.op = "destroy"
    /\ ad.currentAd
    /\ container = {}

\* C8: after destroy() PlayerInstance is subscribed neither to the media source nor
\* to the UI, and the task of a media event changes no PlaybackState and makes no
\* handler emit a player:* event.
C8_NoDeliveryAfterDestroy ==
    [][hist'.destroyed =>
          /\ ~ms'.listeners /\ ~ui'.listeners
          /\ lastOp'.src = "media" =>
                /\ state' = state
                /\ \A i \in 1..Len(out') : out'[i].by # "handler"]_vars

\* the element has reported an error after destroy()
C8_Witness ==
    /\ hist.destroyed
    /\ lastOp = [src |-> "media", op |-> "error"]
    /\ ~ms.listeners /\ ~ui.listeners

MediaTypes == {"hls", "dash", "audio", "video"}

\* the URL ends in the extension e, or e is followed by the query string
Ends(url, e) == matchExt(toLowerCase(url), {e})

KnownExts ==
    AudioExts \cup VideoExts \cup {<<"m", "3", "u", "8">>, <<"m", "p", "d">>}

\* C9: detectMediaType returns a type for every request and, when no priority is
\* configured, maps a .m3u8 URL to hls, a .mpd URL to dash, a .mp3 URL to audio, a
\* .mp4 URL to video and a URL with an unknown extension to video.
C9_DetectByExtension ==
    detected # "pending" =>
        /\ detected \in MediaTypes \cup Priorities
        /\ ~Truthy(req.priority) =>
              /\ Ends(req.url, <<"m", "3", "u", "8">>) => detected = "hls"
              /\ Ends(req.url, <<"m", "p", "d">>) => detected = "dash"
              /\ Ends(req.url, <<"m", "p", "3">>) => detected = "audio"
              /\ Ends(req.url, <<"m", "p", "4">>) => detected = "video"
              /\ (\A e \in KnownExts : ~Ends(req.url, e)) => detected = "video"

HlsPattern(url) ==
    includes(toLowerCase(url), <<".", "m", "3", "u", "8">>)
        \/ includes(toLowerCase(url), <<"h", "l", "s">>)

DashPattern(url) ==
    includes(toLowerCase(url), <<".", "m", "p", "d">>)
        \/ includes(toLowerCase(url), <<"d", "a", "s", "h">>)

AudioPattern(url) == matchExt(toLowerCase(url), AudioExts)

\* C10: createMediaSource takes the explicit type when one is given, otherwise
\* config.priority when it is set, and otherwise the first URL pattern that matches
\* in the order hls, dash, audio, video, with video as the default; the backend is
\* the class registered for that type, and an unregistered type is an error.
C10_SelectionOrder ==
    made # NoResult =>
        /\ Truthy(req.type) => made.type = req.type
        /\ (~Truthy(req.type) /\ Truthy(req.priority)) => made.type = req.priority
        /\ (~Truthy(req.type) /\ ~Truthy(req.priority)) =>
              /\ HlsPattern(req.url) => made.type = "hls"
              /\ (~HlsPattern(req.url) /\ DashPattern(req.url)) => made.type = "dash"
              /\ (~HlsPattern(req.url) /\ ~DashPattern(req.url) /\ AudioPattern(req.url))
                    => made.type = "audio"
              /\ (~HlsPattern(req.url) /\ ~DashPattern(req.url) /\ ~AudioPattern(req.url))
                    => made.type = "video"
        /\ made.source = IF made.type \in DOMAIN sourceTypes THEN sourceTypes[made.type]
                         ELSE "Error"

\* an explicit type has won over a configured priority and over a URL that matches
\* the hls and the audio pattern
C10_Witness ==
    /\ made # NoResult
    /\ req.type = "mp4" /\ req.priority = "audio"
    /\ HlsPattern(req.url) /\ AudioPattern(req.url)
    /\ made = [type |-> "mp4", source |-> "Mp4Source"]

\* C11: a player created through UniversalPlayer.init from a user configuration that
\* sets neither mediaType nor priority gets the backend registered for the type that
\* the pattern of its videoUrl selects.
C11_BackendFollowsUrl ==
    (inst # NoResult /\ ~Truthy(req.type) /\ ~Truthy(req.priority)) =>
        inst.source = sourceTypes[detectMediaType(req.url, Absent)]

\* the type a request asks for: the explicit type, else config.priority
Requested(r) == IF Truthy(r.type) THEN r.type ELSE r.priority

\* C12: createMediaSource with a requested type (explicit, or taken from
\* config.priority) that has no registered backend ends in the unsupported-type error
\* and instantiates no media source.
C12_UnregisteredTypeFails ==
    (made # NoResult /\ Truthy(Requested(req)) /\ Requested(req) \notin DOMAIN sourceTypes)
        => made = [type |-> Requested(req), source |-> "Error"]

\* a request without an explicit type whose config.priority names no registered backend
C12_Witness ==
    /\ req.type = Absent /\ req.priority = "rtmp"
    /\ made = [type |-> "rtmp", source |-> "Error"]

\* C13: when the most recent volume or mute call that completed was setVolume(0) and
\* every volumechange event of the media source has been handled, state.muted is true.
C13_MutedAfterVolumeZero ==
    (/\ hist.volCall = "zero"
     /\ \A i \in 1..Len(queue) : queue[i].kind # "volumechange")
        => state.muted

\* C14: state.muted goes from true to false only in a toggleMute call; in particular
\* setVolume(x) with x > 0 leaves a muted instance muted.
C14_OnlyToggleUnmutes ==
    [][(state.muted /\ ~state'.muted) => lastOp'.op = "toggleMute"]_vars

\* C15: within the session of a player, viewed_threshold_reached has been tracked
\* exactly once if the reported progress has reached the threshold the player was
\* configured with, and never otherwise.
C15_ThresholdTrackedOnce ==
    \A p \in DOMAIN am.sessionData :
        ahist.vtr[p] = IF ahist.reached[p] THEN 1 ELSE 0

\* C16: when the send of a batch fails (the request throws, or the response is not
\* ok), the events of the batch are back at the front of the queue in their order,
\* ahead of the events tracked while the send was in flight.
C16_FailedBatchRequeued ==
    [][aop'.op \in {"sendNotOk", "sendThrows"}
          => am'.trackingQueue = aop'.batch \o am.trackingQueue]_vars

\* the events of a batch are in the order in which they were tracked
InTrackedOrder(events) ==
    \A i \in 1..Len(events) : \A j \in 1..Len(events) :
        i < j => events[i].n < events[j].n

\* C17: a flush cycle takes at most BatchSize events, they are the head of the queue
\* and leave it, and they are handed to the send in the order in which they were
\* tracked.
C17_FlushTakesHeadInOrder ==
    [][(aop'.op \in {"flush", "init"} /\ aop'.batch # << >>) =>
          /\ Len(aop'.batch) <= BatchSize
          /\ am.trackingQueue = aop'.batch \o am'.trackingQueue
          /\ InTrackedOrder(aop'.batch)
          /\ Truthy(am'.config.trackingUrl) =>
                \E i \in 1..Len(loops') : loops'[i] = [at |-> "send", batch |-> aop'.batch]]_vars

\* C18 (parts): a settled ad promise leaves no ad session behind
AdSettledMeansIdle ==
    ad.promise \in {"resolved", "rejected"} => ~ad.currentAd /\ ~ad.isPlayingAd

\* C18 (parts): a promise resolves only when the ad ends or is skipped, rejects only
\* on an ad error, and once settled changes only when a new ad call replaces it
AdSettlesByCause ==
    /\ ad.promise = "pending" /\ ad'.promise = "resolved" => lastOp'.op \in {"adEnds", "adSkip"}
    /\ ad.promise = "pending" /\ ad'.promise = "rejected" => lastOp'.op = "adError"
    /\ ad.promise \in {"resolved", "rejected"} /\ ad'.promise # ad.promise
           => lastOp'.op = "adStarts"

\* C18: every promise returned by playPreRoll, playPauseRoll or playPostRoll settles
\* exactly once: it resolves when the ad ends or is skipped and rejects on an ad
\* error, a settled promise leaves no ad session active, and a pending promise is
\* settled eventually.
C18_AdPromiseSettlesOnce ==
    /\ []AdSettledMeansIdle
    /\ [][AdSettlesByCause]_vars
    /\ (ad.promise = "pending") ~> (ad.promise # "pending")

\* C19: while an ad plays, the skip control is not displayed before the ad's playback
\* time has reached skipAfter, and no skip is performed before that time.
C19_NoSkipBeforeDelay ==
    /\ [](ad.isPlayingAd /\ ad.skipButton \in {"countdown", "skip"}
              => ad.adTime >= skipAfterOf(World))
    /\ [][ad.isPlayingAd /\ lastOp'.op = "adSkip" => ad.adTime >= skipAfterOf(World)]_vars

\* C20: main content is never playing while an ad session is active, and with a
\* configured pre-roll content plays only after the pre-roll has been played.
C20_AdsSerialisedWithContent ==
    state.playing => ~ad.isPlayingAd /\ (cfg.preRoll => hist.adPlayed)

\* the listeners subscribed to the event, as a set of subscription numbers
Subscribed(e) ==
    {e.events[i] : i \in 1..Len(e.events)} \cup {e.onceEvents[i] : i \in 1..Len(e.onceEvents)}

\* the calls of one emit are the listeners `S`, each once, in subscription order
CalledInOrder(log, S) ==
    /\ Len(log) = Cardinality(S)
    /\ {log[i] : i \in 1..Len(log)} = S
    /\ \A i, j \in 1..Len(log) : i < j => log[i] < log[j]

\* C21: emit calls, before it returns, every listener subscribed to the event with
\* on or with once, in the order in which the listeners were subscribed (stated for
\* listeners that do not use the EventManager themselves).
C21_EmitInSubscriptionOrder ==
    [][(em'.emits = em.emits + 1 /\ \A n \in Subscribed(em) : em.subs[n].does = "plain")
          => CalledInOrder(em'.log, Subscribed(em))]_vars

\* the number of host emits after which the once listener `n` must have been called:
\* the first emit after its subscription (the next one, for a listener subscribed
\* while an emit is dispatching)
DueAfter(e, n) == e.subs[n].at + (IF e.subs[n].during THEN 2 ELSE 1)

\* C22 (parts): a once listener is never called twice
OnceAtMostOnce ==
    \A n \in 1..Len(em.subs) : em.subs[n].once => em.calls[n] <= 1

\* C22 (parts): a once listener has been called when the first emit after its
\* subscription has returned
OnceNotLost ==
    \A n \in 1..Len(em.subs) :
        em.subs[n].once /\ em.emits >= DueAfter(em, n) => em.calls[n] >= 1

\* C22: a listener subscribed with once is called for the first emit of the event
\* after its subscription and never again, also when listeners subscribe or emit the
\* same event during the dispatch.
C22_OnceCalledExactlyOnce == OnceAtMostOnce /\ OnceNotLost

\* C23: after ended with nextVideo.url configured the instance loads that URL, and
\* when the new media has loaded (the element's loadeddata) it emits player:ready.
C23_ReadyForNextVideo ==
    [][(hist.autoNext /\ lastOp'.op = "loadeddata") => Emitted(out', "player:ready") = 1]_vars

\* a step in which the instance switches to a new media URL: loadVideo called on an
\* instance that has a media source, or handleEnded with nextVideo.url configured
SwitchesUrl ==
    \/ lastOp'.op = "loadVideo" /\ ms.kind # "none"
    \/ lastOp'.op = "ended" /\ Emitted(out', "player:ended") = 1 /\ Truthy(cfg.nextVideo)

\* C24 (parts): at most one media source has been created and not destroyed
OneLiveSource == hist.srcCreated - hist.srcDestroyed <= 1

\* C24: an instance never has more than one live media source, and switching to a
\* new media URL destroys the current media source and creates a new one.
C24_SwitchRecreatesSource ==
    /\ []OneLiveSource
    /\ [][SwitchesUrl => /\ hist'.srcDestroyed = hist.srcDestroyed + 1
                          /\ hist'.srcCreated = hist.srcCreated + 1]_vars

\* the claim of C25 about one object: the keys are those of the two objects, a key
\* of the user object has the user's value (nested objects compared key by key), a
\* key absent from it has the default value
RECURSIVE UserOverDefault(_, _, _)
UserOverDefault(result, default, user) ==
    /\ isObject(result)
    /\ DOMAIN result.f = DOMAIN default.f \cup DOMAIN user.f
    /\ \A key \in DOMAIN default.f \ DOMAIN user.f : result.f[key] = default.f[key]
    /\ \A key \in DOMAIN user.f :
          IF key \in DOMAIN default.f /\ isObject(default.f[key]) /\ isObject(user.f[key])
          THEN UserOverDefault(result.f[key], default.f[key], user.f[key])
          ELSE result.f[key] = user.f[key]

\* C25: createConfig(user) has, at every nesting depth, the user's value for each
\* key present in the user object and the default value for each key absent from it.
C25_UserOverridesDefaults ==
    mcfg.created => UserOverDefault(mcfg.config, defaultConfig, ucfg)

\* a user object that overrides one key two levels down and leaves its siblings out
C25_Witness ==
    /\ mcfg.created
    /\ ucfg = Object([pip |-> Object([size |-> Object([width |-> Atom("user")])])])
    /\ mcfg.config.f.pip.f.size.f.width = Atom("user")
    /\ mcfg.config.f.pip.f.size.f.height = Atom("180")
    /\ mcfg.config.f.pip.f.enabled = Atom("true")

\* C26: deep-merging the default configuration with itself yields the default
\* configuration, and createConfig of an empty user object yields it too.
C26_MergeIdempotentOnDefaults ==
    /\ mcfg.merged => mcfg.self = defaultConfig
    /\ mcfg.created /\ ucfg = Object(<< >>) => mcfg.config = defaultConfig

C26_Witness ==
    /\ mcfg.merged /\ mcfg.self = defaultConfig
    /\ mcfg.created /\ ucfg = Object(<< >>) /\ mcfg.config = defaultConfig

\* the rules of C27 that a configuration violates: no videoUrl, a negative or
\* non-finite startOffset, a volume outside [0, 1]
ViolatedRules(config) ==
    (IF config.videoUrl = << >> THEN <<"videoUrl is required">> ELSE << >>)
    \o (IF LessThanZero(config.startOffset) \/ ~isFinite(config.startOffset)
        THEN <<"startOffset must be a positive number">> ELSE << >>)
    \o (IF LessThanZero(config.volume) \/ MoreThanOne(config.volume)
        THEN <<"volume must be between 0 and 1">> ELSE << >>)

\* C27: initialising a player with a missing or invalid required field fails with a
\* validation error whose message lists every violated rule.
C27_InitRejectsInvalidConfig ==
    (vout.op = "init" /\ ViolatedRules(vcfg) # << >>)
        => vout.outcome = "Error" /\ vout.message = ViolatedRules(vcfg)

\* a step that is setQuality with a name not among the extracted quality levels
UnmatchedSetQuality == qs'.op = "setQuality" /\ find(qs.qualities, qs'.arg) = 0

\* the step leaves the source and its backend as they were and emits nothing
QualityUntouched ==
    /\ qs'.level = qs.level /\ qs'.autoSwitch = qs.autoSwitch
    /\ qs'.currentQuality = qs.currentQuality /\ qs'.qualities = qs.qualities
    /\ qs'.backend = qs.backend
    /\ qs'.emitted = << >>

\* C28 as stated: setQuality with a name that is not among the extracted quality
\* levels changes nothing and emits no quality_changed.
C28_UnmatchedQualityIgnored ==
    [][UnmatchedSetQuality => QualityUntouched]_vars

\* C28: setQuality with a name that is not among the extracted quality levels, and
\* that on a DASH source is not 'auto', changes nothing and emits no quality_changed.
C28_UnmatchedNamedQualityIgnored ==
    [][(UnmatchedSetQuality /\ ~(qs.kind = "dash" /\ qs'.arg = "auto")) => QualityUntouched]_vars

\* a loaded source set to 720p has been asked for the unknown 4k
C28_Witness ==
    /\ qs.op = "setQuality" /\ qs.arg = "4k"
    /\ qs.backend /\ qs.qualities # << >>
    /\ qs.currentQuality = "720p" /\ qs.emitted = << >>

\* C29: the controls are never hidden while the media is paused.
C29_ControlsVisibleWhilePaused ==
    (UiLive /\ el.paused) => ui.controlsVisible

\* C30: a session's totalPlayTime is the sum of the durations of its play intervals,
\* each from a tracked play to the next tracked pause and counted once (an interval
\* with repeated plays may be counted from its first or from its latest play).
C30_TotalPlayTimeIsSumOfIntervals ==
    \A p \in DOMAIN am.sessionData :
        /\ am.sessionData[p].totalPlayTime >= ahist.atLeast[p]
        /\ am.sessionData[p].totalPlayTime <= ahist.atMost[p]

\* the events the analytics still holds: those in the queue and those of the batches
\* whose send is in flight
Undelivered(queue0, loops0) ==
    {queue0[k] : k \in 1..Len(queue0)}
        \cup UNION {{loops0[i].batch[k] : k \in 1..Len(loops0[i].batch)} :
                       i \in {j \in 1..Len(loops0) : loops0[j].at = "send"}}

\* C31: a tracked event leaves the analytics only by a send that succeeded: after
\* every step an event that was in the queue, or in a batch being sent, is still in
\* the queue or in a batch being sent, unless the step is the successful end of the
\* send of its batch.
C31_UndeliveredEventStaysQueued ==
    [][\A ev \in Undelivered(am.trackingQueue, loops) :
          \/ ev \in Undelivered(am'.trackingQueue, loops')
          \/ aop'.op = "sendOk" /\ \E k \in 1..Len(aop'.batch) : aop'.batch[k] = ev]_vars

\* C32: the failure of the media load (the element's error event while init awaits
\* mediaSource.load()) emits player:error exactly once.
C32_LoadFailureEmitsOneError ==
    [][(lastOp'.op = "error" /\ el.loadWait) => Emitted(out', "player:error") = 1]_vars

\* C33: from player:ready on, and until the player is destroyed, the ad container
\* created by AdManager.init is an element of the player's container.
C33_AdContainerAttachedAtReady ==
    (hist.readyEmitted /\ ~hist.destroyed) =>
        (ad.adContainer = "attached" /\ "up-ad-container" \in container)

\* the instances other than p that are live
OtherLive(g, p) == {q \in Players \ {p} : g.live[q] = "live"}

\* C34: destroying an instance leaves the ad playback of the other live instances
\* as it was: the children of their containers stay, and a playPreRoll, playPostRoll
\* or playPauseRoll call does after the destroy what it would have done before it.
C34_DestroyLeavesOtherAdsIntact ==
    [][(pg'.call.op = "destroy" /\ OtherLive(pg', pg'.call.by) # {}) =>
          /\ \A q \in OtherLive(pg', pg'.call.by) : pg'.dom[q] = pg.dom[q]
          /\ \A type \in RollTypes : rollOutcome(pg', type) = rollOutcome(pg, type)]_vars

\* C35: the events of every initialised player are tracked according to the
\* eventTracking configuration that player was initialised with: track() is enabled
\* for them exactly if that configuration enables it, and the endpoint their batches
\* are sent to is the trackingUrl of that configuration.
C35_TrackedByOwnConfig ==
    \A p \in Players :
        ahist.own[p] # NullConfig =>
            /\ Enabled(AWorld) = ahist.own[p].enabled
            /\ am.config.trackingUrl = ahist.own[p].trackingUrl

\* C37: at most one invocation of processTrackingQueue is alive while tracking is on
\* (an invocation is alive from its call until its loop has seen isTracking false).
C37_OneFlushLoop == am.isTracking => Len(loops) <= 1

\* C36: the promise of an ad that is interrupted is still settled: starting another
\* ad leaves no pending promise without its resolve and reject, and the promise that
\* is pending when the instance is destroyed is settled eventually.
C36_InterruptedAdPromiseSettles ==
    /\ [](hist.orphaned = 0)
    /\ (hist.destroyed /\ ad.promise = "pending") ~> (ad.promise # "pending")

\* C38: after a setQuality call on the PlayerInstance, state.quality is the current
\* quality of its media source.
C38_StateQualityIsSourceQuality ==
    [][qs'.op = "playerSetQuality" => qs'.stateQuality = qs'.currentQuality]_vars

\* the last step was a setQuality that selected the level of a named quality, and
\* this step is the backend reporting the switch to that level
SwitchToSelectedLevel ==
    /\ qs.op = "setQuality" /\ qs.arg # "auto" /\ qs.emitted = <<qs.arg>>
    /\ qs'.op = "levelSwitched" /\ qs'.level = qs.level

\* C39: when the backend reports the switch to the level that setQuality(name)
\* selected, currentQuality and the quality_changed event carry that name.
C39_QualityNameRoundTrips ==
    [][SwitchToSelectedLevel =>
          (qs'.currentQuality = qs.arg /\ qs'.emitted = <<qs.arg>>)]_vars

\* the listeners of a sequence, as a set
Listeners(seq) == {seq[i] : i \in 1..Len(seq)}

\* C40: every listener that was subscribed when emit was called is called during
\* that emit, also when listeners are removed with off() during the dispatch (a
\* listener removes only itself, and does so while it is being called).
C40_OffDuringEmitSkipsNoListener ==
    [][em'.emits = em.emits + 1 => Listeners(em'.before) \subseteq Listeners(em'.log)]_vars
====
